---- MODULE Spec2Model ----
(***************************************************************************)
(* A model of the polymarketsnipper backend services:                      *)
(*   services/portfolio.py            PortfolioManager                      *)
(*   services/executor.py             TradeExecutor                         *)
(*   services/smart_money/tracker.py  SmartMoneyTracker                     *)
(*   services/radar.py                PolymarketRadar                       *)
(*   services/listener.py             SocialListener                        *)
(*                                                                         *)
(* Money is counted in cents, scores in hundredths (0.40 is 40), so that   *)
(* the arithmetic of the Python code is integer arithmetic here.           *)
(***************************************************************************)
EXTENDS Integers, Sequences, FiniteSets, Bags, TLC

VARIABLES
    \* ---- PortfolioManager (services/portfolio.py) ----
    initial_capital, available_balance, positions,
    total_trades, winning_trades, losing_trades, total_profit,
    \* history of the portfolio calls (not program state)
    pf_calls, overwritten_open, reclosed,
    \* ---- TradeExecutor (services/executor.py) ----
    trades_today, last_reset_date, utc_date, exec_last,
    \* history of the executor calls (not program state)
    opened_on_date, opened_since_reset,
    \* ---- WalletScorer / SmartMoneyTracker / SignalPublisher ----
    wallet_store, wallet_cache, market_entries, tracker_now, published,
    \* history of the tracker calls (not program state)
    orders_tracked,
    \* ---- PolymarketRadar (services/radar.py) ----
    cache_data, cache_timestamp, radar_now, notified_critical_markets,
    \* the alerts the notifier delivered, and the last call of
    \* get_political_events with what it returned (not program state)
    alerts_sent, scan_last, scans, last_refresh,
    \* ---- TelegramNotifier (services/telegram_notifier.py) ----
    telegram_enabled,
    \* ---- SocialListener (services/listener.py) ----
    targets, favorites, global_keywords, cycle_count, scraper,
    last_tweet_ids, last_news_links, listener_pc,
    \* the rows of the Trade table that _trigger_snipe recorded (a bag)
    trades,
    \* what the feeds and the scraped accounts have published
    news_published, tweets_published,
    \* history of the loop (not program state)
    quiet_cycles, analyzed, reanalyzed,
    \* ---- threads inside get_political_events ----
    \* per caller: where it is in the function and its local variables
    callers,
    \* how often the queries were started, and the lists that were built
    \* completely (not program state)
    query_sets, built,
    \* ---- one call of SocialListener._analyze_content ----
    \* its arguments, and what it did
    analysis,
    \* ---- the Setting table (routers/settings.py) ----
    \* the value of listener_keywords, as the list it parses to
    listener_keywords,
    \* ---- the threads of SocialListener._monitor_loop ----
    \* the flag, and where each thread is (none: not started)
    is_running, loops,
    \* a stop() came while a cycle was in flight (not program state)
    stopped_in_flight,
    \* ---- one call of PortfolioManager.calculate_position_size ----
    \* its argument and what it returned
    sizing,
    \* ---- the exceptions of one thread of SocialListener._monitor_loop ----
    \* where the thread is, the flag it reads, and what its last step raised,
    \* logged and slept
    mon,
    \* ---- threads inside TradeExecutor.execute_trade ----
    \* per thread: where it is in the call and its local variables
    race,
    \* ---- SignalPublisher (services/signals/publisher.py) and its Redis ----
    \* _connected, the lists signals:{market_id} (newest first), the emit in
    \* progress, and the _log_to_db tasks created and not yet run
    pub_connected, redis_lists, emit, db_tasks,
    \* the signals numbered so far, those published on snipe_signals, those
    \* pushed onto a list, the rows of the SnipeSignal table, the failures so
    \* far, and the last call of get_recent_signals with what it returned
    \* (not program state)
    emitted, channel, appended, persisted, pub_faults, recent_last,
    \* the signals emitted by earlier runs (not program state)
    pub_start,
    \* ---- one call of WalletScorer.calculate_score ----
    \* its argument and what it returned or raised
    score_last,
    \* ---- concurrent update_wallet_score / get_wallet_grade on one wallet ----
    \* the wallet's row, its Redis key and the coroutines in flight
    wg,
    \* ---- the two urgency tables applied to one days_remaining ----
    urgency_probe

pfVars == <<initial_capital, available_balance, positions, total_trades,
            winning_trades, losing_trades, total_profit>>
pfHist == <<pf_calls, overwritten_open, reclosed>>
exVars == <<trades_today, last_reset_date, utc_date, exec_last,
            opened_on_date, opened_since_reset>>

trVars == <<wallet_store, wallet_cache, market_entries, tracker_now, published,
            orders_tracked>>

rdVars == <<cache_data, cache_timestamp, radar_now, notified_critical_markets,
            alerts_sent, scan_last, scans, last_refresh, telegram_enabled>>

lsLoopVars == <<cycle_count, scraper, last_tweet_ids, last_news_links,
                listener_pc, trades, news_published, tweets_published,
                quiet_cycles, analyzed, reanalyzed>>

lsVars == <<targets, favorites, global_keywords, lsLoopVars>>

thVars == <<callers, query_sets, built>>

anVars == <<analysis>>

\* the variables that the single-threaded calls of the services leave alone
cfgVars == <<listener_keywords>>

lcVars == <<is_running, loops, stopped_in_flight>>

szVars == <<sizing>>

monVars == <<mon>>

raceVars == <<race>>

pubVars == <<pub_connected, redis_lists, emit, db_tasks, emitted, channel,
             appended, persisted, pub_faults, recent_last, pub_start>>

scVars == <<score_last>>

wgVars == <<wg>>

upVars == <<urgency_probe>>

\* the variables of the components modelled last
lateVars == <<szVars, monVars, raceVars, pubVars, scVars, wgVars, upVars>>

earlyVars == <<pfVars, pfHist, exVars, trVars, rdVars, lsVars, thVars, anVars,
               cfgVars, lcVars>>

\* what the steps of one late component leave alone
notSz == <<earlyVars, monVars, raceVars, pubVars, scVars, wgVars, upVars>>
notMon == <<earlyVars, szVars, raceVars, pubVars, scVars, wgVars, upVars>>
notPub == <<earlyVars, szVars, monVars, raceVars, scVars, wgVars, upVars>>
notSc == <<earlyVars, szVars, monVars, raceVars, pubVars, wgVars, upVars>>
notWg == <<earlyVars, szVars, monVars, raceVars, pubVars, scVars, upVars>>
notUp == <<earlyVars, szVars, monVars, raceVars, pubVars, scVars, wgVars>>

restVars == <<thVars, anVars, cfgVars, lcVars, lateVars>>

vars == <<pfVars, pfHist, exVars, trVars, rdVars, lsVars, restVars>>

-----------------------------------------------------------------------------
(* Arithmetic helpers *)

Min(a, b) == IF a < b THEN a ELSE b
Max(a, b) == IF a > b THEN a ELSE b

\* Python round(): n/d rounded to the nearest integer, ties to even (d > 0, n >= 0)
RoundDiv(n, d) ==
    LET q == n \div d
        r == n % d
    IN  IF 2 * r < d THEN q
        ELSE IF 2 * r > d THEN q + 1
        ELSE IF q % 2 = 0 THEN q ELSE q + 1

RECURSIVE SumOver(_, _)
\* the sum of f[x] over the elements x of the finite set S
SumOver(S, f) ==
    IF S = {} THEN 0
    ELSE LET x == CHOOSE y \in S : TRUE
         IN  f[x] + SumOver(S \ {x}, f)

-----------------------------------------------------------------------------
(* PortfolioManager *)

MarketIds == {"m1", "m2"}

\* the market ids the positions dict may come to hold, in the order in which a
\* stream of signals on distinct markets names them
MarketOrder ==
    <<"m1", "m2", "m3", "m4", "m5", "m6", "m7", "m8", "m9", "m10", "m11">>

PositionIds == {MarketOrder[i] : i \in 1..Len(MarketOrder)}

\* PortfolioManager(initial_capital=10000.0), in cents
DefaultCapital == 1000000

\* the market has no entry in self.positions
NoPosition == [status |-> "NONE", side |-> "-", size |-> 0, confidence |-> 0,
               outcome |-> "-", payout |-> 0, profit |-> 0]

\* Python's None, where a number may stand instead (never compared by order)
None == -999999

\* float('nan'), where a number may stand instead; every comparison with it
\* is false
NaN == -888888
Less(a, b) == a # NaN /\ b # NaN /\ a < b

\* payout=None
NoPayout == None

PortfolioInit(capital) ==
    /\ initial_capital = capital
    /\ available_balance = capital
    /\ positions = [m \in PositionIds |-> NoPosition]
    /\ total_trades = 0
    /\ winning_trades = 0
    /\ losing_trades = 0
    /\ total_profit = 0
    /\ pf_calls = 0
    /\ overwritten_open = 0
    /\ reclosed = 0

can_trade(bet_size) == available_balance >= bet_size

\* calculate_position_size with min_bet=0
calculate_position_size_NoMinBet(confidence) ==
    LET adjusted_size == IF confidence > 50 THEN available_balance * confidence
                         ELSE available_balance * 50
        min_bet_size  == 0
        max_bet_size  == available_balance * 125
        final_size    == Max(min_bet_size, Min(adjusted_size, max_bet_size))
    IN  RoundDiv(final_size, 2500)

\* calculate_position_size(confidence) with the default percentages;
\* confidence in hundredths, the result in cents.  Everything is scaled by
\* 2500 so that balance*0.02*(confidence/0.5) is the integer balance*confidence.
calculate_position_size(confidence) ==
    LET adjusted_size == IF confidence > 50 THEN available_balance * confidence
                         ELSE available_balance * 50
        min_bet_size  == 1000 * 2500
        max_bet_size  == available_balance * 125
        final_size    == Max(min_bet_size, Min(adjusted_size, max_bet_size))
    IN  RoundDiv(final_size, 2500)

\* open_position without the can_trade test
open_position_NoGuard(market_id, side, size, confidence) ==
    /\ available_balance' = available_balance - size
    /\ positions' = [positions EXCEPT ![market_id] =
           [status |-> "OPEN", side |-> side, size |-> size,
            confidence |-> confidence, outcome |-> "-",
            payout |-> 0, profit |-> 0]]
    /\ total_trades' = total_trades + 1
    /\ overwritten_open' = overwritten_open +
           (IF positions[market_id].status = "OPEN"
            THEN positions[market_id].size ELSE 0)
    /\ UNCHANGED <<initial_capital, winning_trades, losing_trades,
                   total_profit, reclosed>>

\* open_position: the effect on the portfolio; the return value is can_trade(size)
open_position(market_id, side, size, confidence) ==
    IF ~can_trade(size)
    THEN UNCHANGED <<pfVars, overwritten_open, reclosed>>
    ELSE /\ available_balance' = available_balance - size
         /\ positions' = [positions EXCEPT ![market_id] =
                [status |-> "OPEN", side |-> side, size |-> size,
                 confidence |-> confidence, outcome |-> "-",
                 payout |-> 0, profit |-> 0]]
         /\ total_trades' = total_trades + 1
         /\ overwritten_open' = overwritten_open +
                (IF positions[market_id].status = "OPEN"
                 THEN positions[market_id].size ELSE 0)
         /\ UNCHANGED <<initial_capital, winning_trades, losing_trades,
                        total_profit, reclosed>>

close_position_NoProfit(market_id, outcome, payout_arg) ==
    IF positions[market_id].status = "NONE"
    THEN UNCHANGED <<pfVars, overwritten_open, reclosed>>
    ELSE LET position == positions[market_id]
             payout == IF payout_arg = NoPayout
                       THEN (IF outcome = "WIN" THEN position.size * 2 ELSE 0)
                       ELSE payout_arg
             profit == payout - position.size
         IN  /\ available_balance' = available_balance + payout
             /\ total_profit' = total_profit
             /\ winning_trades' = winning_trades + (IF outcome = "WIN" THEN 1 ELSE 0)
             /\ losing_trades' = losing_trades + (IF outcome = "WIN" THEN 0 ELSE 1)
             /\ positions' = [positions EXCEPT ![market_id] =
                    [position EXCEPT !.status = "CLOSED", !.outcome = outcome,
                                     !.payout = payout, !.profit = profit]]
             /\ reclosed' = reclosed +
                    (IF position.status = "CLOSED" THEN position.size ELSE 0)
             /\ UNCHANGED <<initial_capital, total_trades, overwritten_open>>

\* close_position: the effect on the portfolio
close_position(market_id, outcome, payout_arg) ==
    IF positions[market_id].status = "NONE"
    THEN UNCHANGED <<pfVars, overwritten_open, reclosed>>
    ELSE LET position == positions[market_id]
             payout == IF payout_arg = NoPayout
                       THEN (IF outcome = "WIN" THEN position.size * 2 ELSE 0)
                       ELSE payout_arg
             profit == payout - position.size
         IN  /\ available_balance' = available_balance + payout
             /\ total_profit' = total_profit + profit
             /\ winning_trades' = winning_trades + (IF outcome = "WIN" THEN 1 ELSE 0)
             /\ losing_trades' = losing_trades + (IF outcome = "WIN" THEN 0 ELSE 1)
             /\ positions' = [positions EXCEPT ![market_id] =
                    [position EXCEPT !.status = "CLOSED", !.outcome = outcome,
                                     !.payout = payout, !.profit = profit]]
             /\ reclosed' = reclosed +
                    (IF position.status = "CLOSED" THEN position.size ELSE 0)
             /\ UNCHANGED <<initial_capital, total_trades, overwritten_open>>

\* ---- callers of the portfolio singleton ----

\* bound on the number of direct portfolio calls in a behaviour
MaxPfCalls == 4

\* sizes (cents) of directly opened positions; the last exceeds the capital
PfSizes == {20000, 50000, 2000000}
PfConfidences == {60}
\* explicit payouts (cents) next to payout=None
PfPayouts == {NoPayout, 0, 30000}

OpenPositionCall(market_id, side, size, confidence) ==
    /\ pf_calls < MaxPfCalls
    /\ pf_calls' = pf_calls + 1
    /\ open_position(market_id, side, size, confidence)
    /\ UNCHANGED <<exVars, trVars, rdVars, lsVars, restVars>>

ClosePositionCall(market_id, outcome, payout) ==
    /\ pf_calls < MaxPfCalls
    /\ pf_calls' = pf_calls + 1
    /\ close_position(market_id, outcome, payout)
    /\ UNCHANGED <<exVars, trVars, rdVars, lsVars, restVars>>

PfOpen ==
    \E m \in MarketIds, s \in {"YES", "NO"}, z \in PfSizes, c \in PfConfidences :
        OpenPositionCall(m, s, z, c)

PfClose ==
    \E m \in MarketIds, o \in {"WIN", "LOSS"}, p \in PfPayouts :
        ClosePositionCall(m, o, p)

\* ---- one call of calculate_position_size, on any balance ----

\* the balances (cents) the size is computed on: around the $200 below which
\* 5% of the balance is less than the minimum bet, and odd numbers of cents
SizingBalances ==
    {0, 500, 1000, 15000, 19999, 20000, 20001, 50000, 100010, 100030,
     1000000, 1234567}

\* the confidences (hundredths)
SizingConfidences == {5 * k : k \in 0..20}

NoSizing == [called |-> FALSE, confidence |-> 0, size |-> 0]

\* portfolio_manager.calculate_position_size(confidence)
SizePosition ==
    /\ \E confidence \in SizingConfidences :
           sizing' = [called |-> TRUE, confidence |-> confidence,
                      size |-> calculate_position_size(confidence)]
    /\ UNCHANGED notSz

-----------------------------------------------------------------------------
(* TradeExecutor *)

\* EXECUTOR_CONFIG
min_confidence == 50
max_trades_per_day == 20
max_open_positions == 10

\* signals handed to the executor: the features of the signal dict that the
\* scoring functions read
\*   source            signal['source'].lower()
\*   author_tracked    an important handle occurs in signal['author']
\*   url_major         a major news source occurs in signal['url']
\*   quote_hit         a double-quoted phrase of the market title occurs in the content
\*   kw_total, kw_hits the keywords considered and those found in the content
\*   age               seconds since signal['timestamp'], None without timestamp
\*   quote_char, action_word, ambiguous, negative   tokens found in the content
StrongSignal ==
    [source |-> "twitter", author_tracked |-> TRUE, url_major |-> FALSE,
     quote_hit |-> TRUE, kw_total |-> 1, kw_hits |-> 1, age |-> 5,
     quote_char |-> FALSE, action_word |-> FALSE, ambiguous |-> FALSE,
     negative |-> FALSE]
NegatedSignal == [StrongSignal EXCEPT !.negative = TRUE]
MediumSignal ==
    [source |-> "rss", author_tracked |-> FALSE, url_major |-> FALSE,
     quote_hit |-> FALSE, kw_total |-> 2, kw_hits |-> 1, age |-> None,
     quote_char |-> FALSE, action_word |-> FALSE, ambiguous |-> FALSE,
     negative |-> FALSE]
WeakSignal ==
    [source |-> "other", author_tracked |-> FALSE, url_major |-> FALSE,
     quote_hit |-> FALSE, kw_total |-> 4, kw_hits |-> 1, age |-> 1000,
     quote_char |-> FALSE, action_word |-> FALSE, ambiguous |-> TRUE,
     negative |-> FALSE]
ExecSignals == {StrongSignal, NegatedSignal, MediumSignal, WeakSignal}

\* markets handed to the executor (volume and liquidity in dollars)
GoodMarket ==
    [id |-> "m1", volume |-> 20000, liquidity |-> 6000, snipe_score |-> 80,
     days_remaining |-> 3]
ThinMarket == [GoodMarket EXCEPT !.id = "m2", !.volume = 4000]
ExpiredMarket == [GoodMarket EXCEPT !.id = "m2", !.days_remaining = 0]
UndatedMarket == [GoodMarket EXCEPT !.id = "m2", !.days_remaining = None]
PoorMarket ==
    [id |-> "m2", volume |-> 5000, liquidity |-> 0, snipe_score |-> 20,
     days_remaining |-> 100]
ExecMarkets == {GoodMarket, ThinMarket, ExpiredMarket, UndatedMarket, PoorMarket}

\* the (signal, market) pairs handed to execute_trade: the pairs that pass every
\* gate have one confidence, so the balance depends only on the number of trades
ExecInputs ==
    {<<StrongSignal, GoodMarket>>, <<NegatedSignal, GoodMarket>>,
     <<WeakSignal, GoodMarket>>, <<StrongSignal, ThinMarket>>,
     <<StrongSignal, ExpiredMarket>>, <<StrongSignal, UndatedMarket>>,
     <<WeakSignal, UndatedMarket>>, <<MediumSignal, PoorMarket>>}

_assess_source_reliability(signal) ==
    IF signal.source = "twitter"
    THEN (IF signal.author_tracked THEN 100 ELSE 80)
    ELSE IF signal.source = "rss"
    THEN (IF signal.url_major THEN 70 ELSE 50)
    ELSE 30

_assess_keyword_match(signal) ==
    IF signal.quote_hit THEN 100
    ELSE IF signal.kw_total = 0 THEN 50
    ELSE IF signal.kw_hits >= signal.kw_total THEN 90
    ELSE IF 4 * signal.kw_hits >= 3 * signal.kw_total THEN 70
    ELSE IF 2 * signal.kw_hits >= signal.kw_total THEN 50
    ELSE 30

_assess_timing(signal) ==
    IF signal.age = None THEN 50
    ELSE IF signal.age < 10 THEN 100
    ELSE IF signal.age < 60 THEN 90
    ELSE IF signal.age < 300 THEN 70
    ELSE IF signal.age < 900 THEN 50
    ELSE 20

_assess_content_clarity(signal) ==
    IF signal.quote_char THEN 100
    ELSE IF signal.action_word THEN 80
    ELSE IF signal.ambiguous THEN 30
    ELSE 50

calculate_signal_quality(signal) ==
    RoundDiv(_assess_source_reliability(signal) * 40
             + _assess_keyword_match(signal) * 30
             + _assess_timing(signal) * 20
             + _assess_content_clarity(signal) * 10, 100)

\* calculate_market_quality: the urgency score of a days_remaining, in hundredths
MarketUrgency(days_remaining) ==
    IF days_remaining = None THEN 0
    ELSE IF days_remaining <= 0 THEN 0
    ELSE IF days_remaining <= 1 THEN 100
    ELSE IF days_remaining <= 7 THEN 90
    ELSE IF days_remaining <= 30 THEN 70
    ELSE IF days_remaining <= 90 THEN 50
    ELSE 20

calculate_market_quality(market) ==
    LET volume == market.volume
        liquidity == market.liquidity
        days_remaining == market.days_remaining
        volume_score == IF volume >= 100000 THEN 100
                        ELSE IF volume >= 50000 THEN 80
                        ELSE IF volume >= 10000 THEN 60
                        ELSE IF volume >= 5000 THEN 40
                        ELSE 20
        liquidity_score == IF liquidity >= 50000 THEN 100
                           ELSE IF liquidity >= 20000 THEN 80
                           ELSE IF liquidity >= 5000 THEN 60
                           ELSE IF liquidity >= 1000 THEN 40
                           ELSE 20
        urgency_score == MarketUrgency(days_remaining)
    IN  RoundDiv(market.snipe_score * 50 + volume_score * 20
                 + liquidity_score * 20 + urgency_score * 10, 100)

calculate_confidence(signal_quality, market_quality) ==
    RoundDiv(signal_quality * 60 + market_quality * 40, 100)

determine_side(signal) == IF signal.negative THEN "NO" ELSE "YES"

TradesTodayAfterReset_NoReset == trades_today

\* _reset_daily_counter: the counter the gates of this call read
TradesTodayAfterReset == IF utc_date > last_reset_date THEN 0 ELSE trades_today

\* should_execute, after _reset_daily_counter: the reason it returns (or the
\* TypeError that None <= 0 raises), "ok" when every check passed
should_execute(signal, market) ==
    LET signal_quality == calculate_signal_quality(signal)
        market_quality == calculate_market_quality(market)
        confidence == calculate_confidence(signal_quality, market_quality)
        position_size == calculate_position_size(confidence)
    IN  IF market.volume < 5000 THEN "Volume < $5K"
        ELSE IF signal_quality < 40 THEN "Signal quality too low"
        ELSE IF market.days_remaining = None THEN "TypeError"
        ELSE IF market.days_remaining <= 0 THEN "Market expired"
        ELSE IF TradesTodayAfterReset >= max_trades_per_day THEN "Daily limit reached"
        ELSE IF confidence < min_confidence THEN "Confidence too low"
        ELSE IF ~can_trade(position_size) THEN "Insufficient balance"
        ELSE "ok"

\* exec_last before the first call of execute_trade
NoCall == [called |-> FALSE, signal |-> WeakSignal, market |-> PoorMarket,
           reason |-> "-", result |-> "-", side |-> "-", size |-> 0,
           confidence |-> 0, signal_quality |-> 0]

ExecutorInit ==
    /\ trades_today = 0
    /\ utc_date = 0
    /\ last_reset_date = 0
    /\ exec_last = NoCall
    /\ opened_on_date = 0
    /\ opened_since_reset = 0

\* execute_trade counting every call in trades_today
execute_trade_CountsSkips(signal, market) ==
    LET signal_quality == calculate_signal_quality(signal)
        market_quality == calculate_market_quality(market)
        confidence == calculate_confidence(signal_quality, market_quality)
        position_size == calculate_position_size(confidence)
        reason == should_execute(signal, market)
        side == determine_side(signal)
        opened == reason = "ok" /\ can_trade(position_size)
    IN  /\ last_reset_date' = IF utc_date > last_reset_date THEN utc_date
                              ELSE last_reset_date
        /\ IF reason = "ok"
           THEN open_position(market.id, side, position_size, confidence)
           ELSE UNCHANGED <<pfVars, overwritten_open, reclosed>>
        /\ trades_today' = TradesTodayAfterReset + 1
        /\ opened_on_date' = opened_on_date + (IF opened THEN 1 ELSE 0)
        /\ opened_since_reset' = (IF utc_date > last_reset_date THEN 0
                                  ELSE opened_since_reset)
                                 + (IF opened THEN 1 ELSE 0)
        /\ exec_last' = [called |-> TRUE, signal |-> signal, market |-> market,
                         reason |-> reason,
                         result |-> IF reason = "TypeError" THEN "raise"
                                    ELSE IF opened THEN "trade" ELSE "None",
                         side |-> side, size |-> position_size,
                         confidence |-> confidence,
                         signal_quality |-> signal_quality]
        /\ UNCHANGED <<utc_date, pf_calls, trVars, rdVars, lsVars, restVars>>

\* execute_trade(signal, market)
execute_trade(signal, market) ==
    LET signal_quality == calculate_signal_quality(signal)
        market_quality == calculate_market_quality(market)
        confidence == calculate_confidence(signal_quality, market_quality)
        position_size == calculate_position_size(confidence)
        reason == should_execute(signal, market)
        side == determine_side(signal)
        opened == reason = "ok" /\ can_trade(position_size)
    IN  /\ last_reset_date' = IF utc_date > last_reset_date THEN utc_date
                              ELSE last_reset_date
        /\ IF reason = "ok"
           THEN open_position(market.id, side, position_size, confidence)
           ELSE UNCHANGED <<pfVars, overwritten_open, reclosed>>
        /\ trades_today' = TradesTodayAfterReset + (IF opened THEN 1 ELSE 0)
        /\ opened_on_date' = opened_on_date + (IF opened THEN 1 ELSE 0)
        /\ opened_since_reset' = (IF utc_date > last_reset_date THEN 0
                                  ELSE opened_since_reset)
                                 + (IF opened THEN 1 ELSE 0)
        /\ exec_last' = [called |-> TRUE, signal |-> signal, market |-> market,
                         reason |-> reason,
                         result |-> IF reason = "TypeError" THEN "raise"
                                    ELSE IF opened THEN "trade" ELSE "None",
                         side |-> side, size |-> position_size,
                         confidence |-> confidence,
                         signal_quality |-> signal_quality]
        /\ UNCHANGED <<utc_date, pf_calls, trVars, rdVars, lsVars, restVars>>

ExecuteTrade == \E input \in ExecInputs : execute_trade(input[1], input[2])

\* execute_trade for a signal on a market that has no position yet, the
\* markets taken in the order of MarketOrder
ExecuteOnNewMarket ==
    LET held == Cardinality({m \in PositionIds : positions[m].status # "NONE"})
    IN  /\ held < Len(MarketOrder)
        /\ \E signal \in {StrongSignal, NegatedSignal} :
               execute_trade(signal, [GoodMarket EXCEPT !.id = MarketOrder[held + 1]])

\* the last UTC date of a behaviour
MaxDate == 1

\* datetime.utcnow().date() moves to the next day
AdvanceDate ==
    /\ utc_date < MaxDate
    /\ utc_date' = utc_date + 1
    /\ opened_on_date' = 0
    /\ UNCHANGED <<pfVars, pfHist, trades_today, last_reset_date, exec_last,
                   opened_since_reset, trVars, rdVars, lsVars, restVars>>

\* a portfolio too small for a second minimum bet, in cents
SmallCapital == 1500

\* ---- execute_trade called by several threads ----

\* bound: the threads that call execute_trade at the same time, once each
MaxRaceThreads == 2

RaceThreads == 1..MaxRaceThreads

\* a second market that passes every gate
OtherMarket == [GoodMarket EXCEPT !.id = "m2"]

\* the (signal, market) pairs of the concurrent calls
RaceInputs ==
    {<<StrongSignal, GoodMarket>>, <<StrongSignal, OtherMarket>>,
     <<WeakSignal, GoodMarket>>}

\* the locals of a thread that has not called execute_trade
IdleRace ==
    [pc |-> "idle", market_id |-> "-", side |-> "-", size |-> 0,
     confidence |-> 0, loaded |-> 0, result |-> "-"]

RaceInit == race = [t \in RaceThreads |-> IdleRace]

\* calls made one after the other before the threads start
RaceWarmUp ==
    /\ \A t \in RaceThreads : race[t].pc = "idle"
    /\ execute_trade(StrongSignal, GoodMarket)

\* should_execute: _reset_daily_counter and the gates, then "if not
\* should_exec: return None"
RaceGates(t, signal, market) ==
    LET confidence == calculate_confidence(calculate_signal_quality(signal),
                                           calculate_market_quality(market))
        reason == should_execute(signal, market)
    IN  /\ race[t].pc = "idle"
        /\ last_reset_date' = IF utc_date > last_reset_date THEN utc_date
                              ELSE last_reset_date
        /\ trades_today' = TradesTodayAfterReset
        /\ opened_since_reset' = IF utc_date > last_reset_date THEN 0
                                 ELSE opened_since_reset
        /\ race' = [race EXCEPT ![t] =
               IF reason = "ok"
               THEN [@ EXCEPT !.pc = "open", !.market_id = market.id,
                              !.side = determine_side(signal),
                              !.size = calculate_position_size(confidence),
                              !.confidence = confidence]
               ELSE [@ EXCEPT !.pc = "done",
                              !.result = IF reason = "TypeError" THEN "raise"
                                         ELSE "None"]]
        /\ UNCHANGED <<pfVars, pfHist, utc_date, exec_last, opened_on_date>>
        /\ UNCHANGED <<trVars, rdVars, lsVars, thVars, anVars, cfgVars, lcVars,
                       szVars, monVars, pubVars, scVars, wgVars, upVars>>

\* open_position: "if not self.can_trade(size): return False"
RaceCanTrade(t) ==
    /\ race[t].pc = "open"
    /\ race' = [race EXCEPT ![t] =
           IF can_trade(race[t].size) THEN [@ EXCEPT !.pc = "load"]
           ELSE [@ EXCEPT !.pc = "done", !.result = "None"]]
    /\ UNCHANGED <<pfVars, pfHist, exVars>>
    /\ UNCHANGED <<trVars, rdVars, lsVars, thVars, anVars, cfgVars, lcVars,
                   szVars, monVars, pubVars, scVars, wgVars, upVars>>

\* self.available_balance -= size: the balance is read
RaceLoadBalance(t) ==
    /\ race[t].pc = "load"
    /\ race' = [race EXCEPT ![t] = [@ EXCEPT !.pc = "store",
                                             !.loaded = available_balance]]
    /\ UNCHANGED <<pfVars, pfHist, exVars>>
    /\ UNCHANGED <<trVars, rdVars, lsVars, thVars, anVars, cfgVars, lcVars,
                   szVars, monVars, pubVars, scVars, wgVars, upVars>>

\* self.available_balance -= size: the difference is written; the position
\* is stored; self.total_trades += 1: the counter is read
RaceStoreBalance(t) ==
    /\ race[t].pc = "store"
    /\ available_balance' = race[t].loaded - race[t].size
    /\ positions' = [positions EXCEPT ![race[t].market_id] =
           [status |-> "OPEN", side |-> race[t].side, size |-> race[t].size,
            confidence |-> race[t].confidence, outcome |-> "-",
            payout |-> 0, profit |-> 0]]
    /\ overwritten_open' = overwritten_open +
           (IF positions[race[t].market_id].status = "OPEN"
            THEN positions[race[t].market_id].size ELSE 0)
    /\ opened_on_date' = opened_on_date + 1
    /\ opened_since_reset' = opened_since_reset + 1
    /\ race' = [race EXCEPT ![t] = [@ EXCEPT !.pc = "count",
                                             !.loaded = total_trades]]
    /\ UNCHANGED <<initial_capital, total_trades, winning_trades,
                   losing_trades, total_profit, pf_calls, reclosed>>
    /\ UNCHANGED <<trades_today, last_reset_date, utc_date, exec_last>>
    /\ UNCHANGED <<trVars, rdVars, lsVars, thVars, anVars, cfgVars, lcVars,
                   szVars, monVars, pubVars, scVars, wgVars, upVars>>

\* self.total_trades += 1: the sum is written, open_position returns True;
\* self.trades_today += 1: the counter is read
RaceStoreTotal(t) ==
    /\ race[t].pc = "count"
    /\ total_trades' = race[t].loaded + 1
    /\ race' = [race EXCEPT ![t] = [@ EXCEPT !.pc = "today",
                                             !.loaded = trades_today]]
    /\ UNCHANGED <<initial_capital, available_balance, positions,
                   winning_trades, losing_trades, total_profit>>
    /\ UNCHANGED <<pfHist, exVars>>
    /\ UNCHANGED <<trVars, rdVars, lsVars, thVars, anVars, cfgVars, lcVars,
                   szVars, monVars, pubVars, scVars, wgVars, upVars>>

\* self.trades_today += 1: the sum is written; the trade record is returned
RaceStoreToday(t) ==
    /\ race[t].pc = "today"
    /\ trades_today' = race[t].loaded + 1
    /\ race' = [race EXCEPT ![t] = [@ EXCEPT !.pc = "done", !.loaded = 0,
                                             !.result = "trade"]]
    /\ UNCHANGED <<last_reset_date, utc_date, exec_last, opened_on_date,
                   opened_since_reset>>
    /\ UNCHANGED <<pfVars, pfHist>>
    /\ UNCHANGED <<trVars, rdVars, lsVars, thVars, anVars, cfgVars, lcVars,
                   szVars, monVars, pubVars, scVars, wgVars, upVars>>

RaceGate ==
    \E t \in RaceThreads, input \in RaceInputs : RaceGates(t, input[1], input[2])

RaceCheck == \E t \in RaceThreads : RaceCanTrade(t)

RaceLoad == \E t \in RaceThreads : RaceLoadBalance(t)

RaceStore == \E t \in RaceThreads : RaceStoreBalance(t)

RaceCount == \E t \in RaceThreads : RaceStoreTotal(t)

RaceToday == \E t \in RaceThreads : RaceStoreToday(t)


-----------------------------------------------------------------------------
(* WalletScorer.get_wallet_grade, SmartMoneyTracker, SignalPublisher.emit_signal *)

Wallets == {"w1", "w2", "w3", "w4", "w5"}

\* no row / no key for the wallet
NoGrade == "none"

\* the wallet_scores table as the tracker finds it
StoredGrades == [w \in Wallets |->
    CASE w = "w1" -> "A" [] w = "w2" -> "B" [] w = "w3" -> "A"
      [] w = "w4" -> "C" [] OTHER -> NoGrade]

\* SmartMoneyTracker.__init__
MIN_WALLETS == 3
TIME_WINDOW == 30
MIN_CUMULATIVE_SIZE == 500
\* deque(maxlen=100)
EntriesMaxLen == 100

TrackerInit ==
    /\ wallet_store = StoredGrades
    /\ wallet_cache = [w \in Wallets |-> NoGrade]
    /\ market_entries = [m \in MarketIds |-> <<>>]
    /\ tracker_now = 0
    /\ published = <<>>
    /\ orders_tracked = 0

\* get_wallet_grade: the grade returned (cache, then store, then UNKNOWN)
get_wallet_grade(wallet_address) ==
    IF wallet_cache[wallet_address] # NoGrade THEN wallet_cache[wallet_address]
    ELSE IF wallet_store[wallet_address] # NoGrade THEN wallet_store[wallet_address]
    ELSE "UNKNOWN"

\* get_wallet_grade: the cache after the call (a store hit is re-cached)
CacheAfterLookup(wallet_address) ==
    IF wallet_cache[wallet_address] = NoGrade /\ wallet_store[wallet_address] # NoGrade
    THEN [wallet_cache EXCEPT ![wallet_address] = wallet_store[wallet_address]]
    ELSE wallet_cache

\* deque.append with maxlen
DequeAppend(entries, entry) ==
    IF Len(entries) >= EntriesMaxLen
    THEN Append(Tail(entries), entry)
    ELSE Append(entries, entry)

\* the indices of the entries of a side inside the time window
RecentIdx(entries, now) ==
    {i \in 1..Len(entries) : now - entries[i].timestamp <= TIME_WINDOW}
SideIdx(entries, now, side) ==
    {i \in RecentIdx(entries, now) : entries[i].side = side}
SideWallets(entries, now, side) ==
    {entries[i].wallet : i \in SideIdx(entries, now, side)}
SideSize(entries, now, side) ==
    SumOver(SideIdx(entries, now, side), [i \in 1..Len(entries) |-> entries[i].size])
GradeScore(grade) ==
    CASE grade = "A" -> 100 [] grade = "B" -> 75 [] grade = "C" -> 50
      [] grade = "D" -> 25 [] OTHER -> 50
SideGradeSum(entries, now, side) ==
    SumOver(SideIdx(entries, now, side),
            [i \in 1..Len(entries) |-> GradeScore(entries[i].grade)])

\* _emit_smart_money_signal: the signal handed to the publisher; the magnitude
\* min(1.0, W/10*0.7 + S/5000*0.3) * avg_grade_score is the fraction
\* mag_num / mag_den; emit_signal stamps the payload with the time
SmartMoneySignal(market_id, side, entries, now) ==
    LET num_wallets == Cardinality(SideWallets(entries, now, side))
        total_size == SideSize(entries, now, side)
    IN  [signal_type |-> "SMART_MONEY", market_id |-> market_id, side |-> side,
         num_wallets |-> num_wallets, total_size |-> total_size,
         timestamp |-> now,
         mag_num |-> Min(100000, 7000 * num_wallets + 6 * total_size)
                     * SideGradeSum(entries, now, side),
         mag_den |-> 100000 * 100 * Cardinality(SideIdx(entries, now, side))]

SideFires_CountOrders(entries, now, side) ==
    /\ Cardinality(SideIdx(entries, now, side)) >= MIN_WALLETS
    /\ SideSize(entries, now, side) >= MIN_CUMULATIVE_SIZE

\* _check_signal_conditions: the test made for one side
SideFires(entries, now, side) ==
    /\ Cardinality(SideWallets(entries, now, side)) >= MIN_WALLETS
    /\ SideSize(entries, now, side) >= MIN_CUMULATIVE_SIZE

\* _check_signal_conditions: the signals it emits, YES before NO
_check_signal_conditions(market_id, entries, now) ==
    IF Cardinality(RecentIdx(entries, now)) < MIN_WALLETS THEN <<>>
    ELSE (IF SideFires(entries, now, "YES")
          THEN <<SmartMoneySignal(market_id, "YES", entries, now)>> ELSE <<>>)
         \o
         (IF SideFires(entries, now, "NO")
          THEN <<SmartMoneySignal(market_id, "NO", entries, now)>> ELSE <<>>)

\* emit_signal for each signal of the sequence: one that finds the publisher
\* connected is broadcast, one that does not is dropped (returns False)
Broadcast(signals, connected) ==
    published \o SelectSeq(signals, LAMBDA sig : connected[sig.side])

\* track_market_order(market_id, wallet_address, side, size, db)
track_market_order(market_id, wallet_address, side, size, connected) ==
    LET grade == get_wallet_grade(wallet_address)
        entry == [wallet |-> wallet_address, grade |-> grade, side |-> side,
                  size |-> size, timestamp |-> tracker_now]
        entries == DequeAppend(market_entries[market_id], entry)
    IN  /\ wallet_cache' = CacheAfterLookup(wallet_address)
        /\ IF grade \notin {"A", "B"}
           THEN UNCHANGED <<market_entries, published>>
           ELSE /\ market_entries' = [market_entries EXCEPT ![market_id] = entries]
                /\ published' = Broadcast(
                       _check_signal_conditions(market_id, entries, tracker_now),
                       connected)
        /\ UNCHANGED <<wallet_store, tracker_now>>

\* bound on the orders of a behaviour, and on the clock
MaxOrders == 4
MaxTicks == 2
\* seconds between two readings of time.time()
TickSeconds == 30

\* the orders of the stream: (market, wallet, side, size in dollars)
TrackerOrders ==
    {<<"m1", "w1", "YES", 300>>, <<"m1", "w1", "YES", 100>>,
     <<"m1", "w2", "YES", 100>>, <<"m1", "w3", "YES", 100>>,
     <<"m1", "w3", "NO", 100>>, <<"m1", "w4", "YES", 300>>,
     <<"m1", "w5", "YES", 300>>, <<"m2", "w3", "YES", 300>>}

TrackOrder ==
    /\ orders_tracked < MaxOrders
    /\ orders_tracked' = orders_tracked + 1
    /\ \E o \in TrackerOrders, connected \in [{"YES", "NO"} -> BOOLEAN] :
           track_market_order(o[1], o[2], o[3], o[4], connected)
    /\ UNCHANGED <<pfVars, pfHist, exVars, rdVars, lsVars, restVars>>

TrackerTick ==
    /\ tracker_now < MaxTicks * TickSeconds
    /\ tracker_now' = tracker_now + TickSeconds
    /\ UNCHANGED <<pfVars, pfHist, exVars, wallet_store, wallet_cache,
                   market_entries, published, orders_tracked, rdVars, lsVars,
                   restVars>>


-----------------------------------------------------------------------------
(* PolymarketRadar *)

\* self.cache['ttl'], seconds
cache_ttl_seconds == 300
SecondsPerDay == 86400

\* the events the exchange serves.  The code only ever asks whether a text
\* contains one of a fixed list of substrings, so a title (and a description)
\* is the set of those substrings that its lowercase text contains ("'" for a
\* quote character); `quoted` holds the phrases the title wraps in quotes.
\* volume and liquidity arrive as a number, a numeric string, another string
\* ("text"), null, or as NaN (the string "nan", which float() parses, or the
\* literal NaN, which the JSON decoder accepts); end_date is missing, unparseable ("garbage"), an ISO
\* timestamp without offset ("naive", end_t seconds on the clock of
\* datetime.now()) or one with an offset or a trailing Z ("aware").
RawEvent(id, title, quoted, volume_kind, volume, liquidity_kind, liquidity, end_kind, end_t) ==
    [item_kind |-> "event", id |-> id, title |-> title, description |-> {},
     quoted |-> quoted, volume_kind |-> volume_kind, volume |-> volume,
     liquidity_kind |-> liquidity_kind, liquidity |-> liquidity,
     end_kind |-> end_kind, end_t |-> end_t]

\* "Will Trump tweet 'MAGA' before Friday?", volume "12345", ends in 3.5 days
EvTweet == RawEvent("m1", {"will", "trump", "tweet", "before", "'"}, {"maga"},
                    "numeric_string", 12345, "number", 0, "naive", 302400)
\* the same id served again by a later query, with another volume
EvTweetAgain == [EvTweet EXCEPT !.volume = 99999, !.volume_kind = "number"]
\* "Will Elon say 'dogecoin'?", ended half a day ago
EvPast == RawEvent("m2", {"will", "elon", "do", "'"}, {"dogecoin"},
                   "number", 600, "number", 1000, "naive", -43200)
\* "Biden speech ...", below the volume threshold
EvThin == RawEvent("m3", {"biden", "speech"}, {},
                   "number", 400, "number", 0, "naive", 864000)
\* "Putin to announce ... before ...", ends in 10 days, written with a trailing Z
EvAware == RawEvent("m4", {"putin", "announce", "before"}, {},
                    "number", 50000, "numeric_string", 50000, "aware", 864000)
\* "Will Musk ... happen", ends in 200 days
EvFar == RawEvent("m5", {"will", "musk", "happen"}, {},
                  "number", 8000, "number", 0, "naive", 17280000)
\* "Trump statement by ...", ends in six hours
EvToday == RawEvent("m6", {"trump", "statement", "by "}, {},
                    "number", 100000, "number", 20000, "naive", 21600)
\* no end date, a volume that is no number
EvText == RawEvent("m7", {}, {},
                   "text", 0, "number", 1000, "missing", 0)
\* volume: null
EvNull == RawEvent("m8", {"trump", "tweet"}, {},
                   "null", 0, "number", 0, "naive", 302400)
\* "Biden to announce ...", an end date that does not parse; scores as EvAware
EvAnnounce == RawEvent("m9", {"biden", "announce"}, {},
                       "number", 50000, "number", 50000, "garbage", 0)
\* "Biden statement by ...", liquidity "nan"
EvNaN == RawEvent("m10", {"biden", "statement", "by "}, {},
                  "number", 30000, "nan", 0, "naive", 864000)
\* the one key of a response {"data": [...]}, met when iterating over it
DictKey == [RawEvent("", {}, {}, "number", 0, "number", 0, "missing", 0)
            EXCEPT !.item_kind = "key"]

\* a query that fails (HTTP error, timeout, invalid JSON)
FAIL == <<[EvText EXCEPT !.item_kind = "failure"]>>

search_queries == <<"tweet say", "announce before", "speech mention",
                    "trump elon", "biden president", "crypto mention">>
NumQueries == Len(search_queries)

\* the responses of the exchange to the six queries of one scan
AllFail == [q \in 1..NumQueries |-> FAIL]
ResponsesA == <<<<EvPast, EvTweet>>, FAIL, <<EvTweetAgain, EvAware>>, <<>>,
                <<EvThin, EvFar>>, <<EvToday, EvText>>>>
ResponsesB == <<<<EvAnnounce, EvToday, EvAware>>, <<EvTweetAgain>>, FAIL, FAIL,
                FAIL, FAIL>>
ResponsesC == <<<<EvTweet>>, <<DictKey>>, FAIL, FAIL, FAIL, <<EvToday>>>>
ResponsesD == <<<<EvAware, EvNull, EvToday>>, FAIL, FAIL, FAIL, FAIL, FAIL>>
ResponsesE == <<<<EvToday, EvNaN, EvTweet, EvPast>>, FAIL, FAIL, FAIL, FAIL, FAIL>>
ExchangeResponses ==
    {AllFail, ResponsesA, ResponsesB, ResponsesC, ResponsesD, ResponsesE}

\* search_markets: the list it returns
search_markets(response) == IF response = FAIL THEN <<>> ELSE response

EVENT_CATEGORIES ==
    <<[category |-> "tweet", keywords |-> {"tweet", "post", "twitter", "x.com"}],
      [category |-> "speech", keywords |-> {"speech", "address", "rally", "speak at"}],
      [category |-> "announcement",
       keywords |-> {"announce", "reveal", "disclose", "unveil"}],
      [category |-> "interview",
       keywords |-> {"interview", "appearance", "podcast", "show"}],
      [category |-> "statement",
       keywords |-> {"statement", "declare", "proclaim", "press conference"}],
      [category |-> "reaction", keywords |-> {"respond", "react", "comment on", "reply"}],
      [category |-> "action", keywords |-> {"do", "will", "happen", "occur"}]>>

\* _categorize_event: the category
Category(text) ==
    LET hits == {i \in 1..Len(EVENT_CATEGORIES) :
                    EVENT_CATEGORIES[i].keywords \cap text # {}}
    IN  IF hits = {} THEN "other"
        ELSE EVENT_CATEGORIES[CHOOSE i \in hits : \A j \in hits : i <= j].category

\* _categorize_event: the detected persons
Persons(text) ==
    (IF {"trump", "donald trump"} \cap text # {} THEN {"Trump"} ELSE {})
    \cup (IF {"biden", "joe biden"} \cap text # {} THEN {"Biden"} ELSE {})
    \cup (IF {"elon", "musk", "elon musk"} \cap text # {} THEN {"Elon Musk"} ELSE {})
    \cup (IF {"putin", "vladimir putin"} \cap text # {} THEN {"Putin"} ELSE {})

\* (end_date - datetime.now()).days
DaysUntil(end_t, now) == (end_t - now) \div SecondsPerDay

_assess_trigger_clarity(event) ==
    IF event.category = "tweet" \/ "tweet" \in event.title
    THEN (IF "'" \in event.title THEN 100 ELSE 90)
    ELSE IF event.category \in {"speech", "announcement", "statement"}
            /\ "'" \in event.title THEN 90
    ELSE IF event.category \in {"speech", "announcement", "statement"} THEN 70
    ELSE IF "before" \in event.title \/ "by " \in event.title THEN 60
    ELSE 30

_assess_monitorability(event) ==
    IF event.category = "tweet" \/ "tweet" \in event.title \/ "post" \in event.title
    THEN 100
    ELSE IF event.category \in {"announcement", "statement"}
            \/ "announce" \in event.title THEN 80
    ELSE IF event.category = "speech" \/ "speech" \in event.title THEN 70
    ELSE IF event.category = "interview" THEN 60
    ELSE IF event.category = "action" THEN 40
    ELSE 30

_assess_reaction_speed(event) ==
    IF event.category = "tweet" THEN 100
    ELSE IF event.category \in {"announcement", "statement", "speech"} THEN 70
    ELSE IF event.days_remaining # None /\ event.days_remaining # 0
            /\ event.days_remaining > 30 THEN 20
    ELSE 50

\* _calculate_snipe_score: the urgency sub-score of a days_remaining
SnipeUrgency(days_remaining) ==
    IF days_remaining < 0 THEN 0
    ELSE IF days_remaining <= 1 THEN 100
    ELSE IF days_remaining <= 7 THEN 90
    ELSE IF days_remaining <= 30 THEN 70
    ELSE IF days_remaining <= 90 THEN 40
    ELSE 10

\* _calculate_snipe_score: the urgency sub-score (subtracting datetime.now()
\* from a timestamp with an offset raises, which the bare except turns into 0.3)
UrgencyScore(end_kind, end_t, now) ==
    IF end_kind = "missing" THEN 0
    ELSE IF end_kind \in {"garbage", "aware"} THEN 30
    ELSE SnipeUrgency(DaysUntil(end_t, now))

\* the days_remaining values both tables are applied to
ProbeDays == (0 - 10)..120

NoProbe == [called |-> FALSE, days_remaining |-> 0, market |-> 0, snipe |-> 0]

\* one days_remaining through calculate_market_quality's urgency table and
\* through _calculate_snipe_score's
UrgencyProbe ==
    /\ \E days_remaining \in ProbeDays :
           urgency_probe' = [called |-> TRUE, days_remaining |-> days_remaining,
                             market |-> MarketUrgency(days_remaining),
                             snipe |-> SnipeUrgency(days_remaining)]
    /\ UNCHANGED notUp

\* _calculate_snipe_score, in hundredths: the weighted sum is kept as a
\* multiple of 1/2000000 and rounded to two decimals.  (Where the sum lies
\* exactly between two hundredths, round() follows the binary float, which may
\* lie on either side; no event of this model has such a sum.)
_calculate_snipe_score(event, now) ==
    IF event.volume = NaN \/ event.liquidity = NaN
    THEN \* min(nan, 1.0) is nan, and so are the sum and round(nan, 2)
         NaN
    ELSE
    RoundDiv((_assess_trigger_clarity(event) * 30
              + _assess_monitorability(event) * 25
              + _assess_reaction_speed(event) * 20
              + UrgencyScore(event.end_kind, event.end_t, now) * 15) * 200
             + Min(event.volume, 100000)
             + 2 * Min(event.liquidity, 50000), 20000)

_is_snipable(event) ==
    /\ ~Less(event.snipe_score, 20)
    /\ ~Less(event.volume, 500)
    /\ ~(event.score_breakdown.trigger_clarity < 20)
    /\ ~(event.days_remaining # None /\ event.days_remaining # 0
         /\ event.days_remaining > 120)
    /\ ~(event.days_remaining # None /\ event.days_remaining < 0)

_get_urgency_level(end_kind, end_t, now) ==
    IF end_kind \in {"missing", "garbage", "aware"} THEN "unknown"
    ELSE LET days_remaining == DaysUntil(end_t, now)
         IN  IF days_remaining < 0 THEN "expired"
             ELSE IF days_remaining <= 1 THEN "critical"
             ELSE IF days_remaining <= 7 THEN "high"
             ELSE IF days_remaining <= 30 THEN "medium"
             ELSE "low"

\* get_political_events: urgency_rate from days_remaining
UrgencyRate(days_remaining) ==
    IF days_remaining = None THEN 0
    ELSE IF days_remaining <= 0 THEN 0
    ELSE IF days_remaining <= 1 THEN 100
    ELSE IF days_remaining <= 7 THEN 90
    ELSE IF days_remaining <= 30 THEN 70
    ELSE IF days_remaining <= 90 THEN 40
    ELSE 10

\* get_political_events: float(None) and float("text") in
\* _calculate_snipe_score raise
ScoreRaises(event) ==
    \/ event.volume_kind = "null"
    \/ event.liquidity_kind \in {"text", "null"}

\* get_political_events: the enriched event built from a raw event
Enrich(event, now) ==
    LET text == event.title \cup event.description
        base == [id |-> event.id, title |-> event.title, quoted |-> event.quoted,
                 category |-> Category(text), persons |-> Persons(text),
                 volume |-> IF event.volume_kind = "text" THEN 0
                            ELSE IF event.volume_kind = "nan" THEN NaN
                            ELSE event.volume,
                 liquidity |-> IF event.liquidity_kind = "nan" THEN NaN
                               ELSE event.liquidity,
                 end_kind |-> event.end_kind, end_t |-> event.end_t,
                 days_remaining |->
                     IF event.end_kind = "naive"
                     THEN Max(0, DaysUntil(event.end_t, now)) ELSE None]
        urgency_rate == UrgencyRate(base.days_remaining)
    IN  [id |-> base.id, title |-> base.title, quoted |-> base.quoted,
         category |-> base.category, persons |-> base.persons,
         volume |-> base.volume, liquidity |-> base.liquidity,
         end_kind |-> base.end_kind, end_t |-> base.end_t,
         days_remaining |-> base.days_remaining,
         snipe_score |-> _calculate_snipe_score(base, now),
         urgency |-> _get_urgency_level(base.end_kind, base.end_t, now),
         urgency_rate |-> urgency_rate,
         score_breakdown |->
             [trigger_clarity |-> _assess_trigger_clarity(base),
              monitorability |-> _assess_monitorability(base),
              reaction_speed |-> _assess_reaction_speed(base),
              urgency |-> urgency_rate],
         \* keys the Listener adds to the dict later
         is_favorite |-> FALSE, priority_boost |-> None,
         _notified_critical |-> FALSE]

RECURSIVE Flatten(_, _)
\* the events of the six result lists in the order the loops visit them
Flatten(responses, q) ==
    IF q > Len(responses) THEN <<>>
    ELSE search_markets(responses[q]) \o Flatten(responses, q + 1)

RECURSIVE ScanLoop(_, _, _, _, _)
\* get_political_events: the loops over the queries and their results, from
\* the i-th event on.  acc holds all_events, seen_ids, the notified set, the
\* ids alerted in this scan, and whether a statement raised.
ScanLoop(flat, i, acc, now, tg_ok) ==
    IF i > Len(flat) \/ acc.raised THEN acc
    ELSE LET event == flat[i]
         IN  IF event.item_kind = "key"
             THEN \* event.get on a string
                  [acc EXCEPT !.raised = TRUE]
             ELSE IF event.id = "" \/ event.id \in acc.seen_ids
             THEN ScanLoop(flat, i + 1, acc, now, tg_ok)
             ELSE IF ScoreRaises(event)
             THEN [acc EXCEPT !.raised = TRUE]
             ELSE LET enriched == Enrich(event, now)
                      seen == [acc EXCEPT !.seen_ids = @ \cup {event.id}]
                      alert == /\ enriched.urgency_rate >= 90
                               /\ event.id \notin acc.notified
                               /\ tg_ok
                  IN  IF ~_is_snipable(enriched)
                      THEN ScanLoop(flat, i + 1, seen, now, tg_ok)
                      ELSE ScanLoop(flat, i + 1,
                               [seen EXCEPT
                                  !.all_events = Append(@, enriched),
                                  !.notified = IF alert THEN @ \cup {event.id} ELSE @,
                                  !.alerted = IF alert THEN Append(@, event.id) ELSE @],
                               now, tg_ok)

\* list.sort compares keys with < only.  A key is a pair here (a single
\* number has 0 in front); tuples compare by their first differing component.
KeyLess(a, b) == a[1] < b[1] \/ (a[1] = b[1] /\ Less(a[2], b[2]))

Reverse(s) == [i \in 1..Len(s) |-> s[Len(s) + 1 - i]]

RECURSIVE RunEnd(_, _, _)
\* list.sort, count_run: the end of the run that starts the list and goes on
\* from position i, strictly descending or else non-descending
RunEnd(s, i, descending) ==
    IF i <= Len(s) /\ (KeyLess(s[i].key, s[i - 1].key) <=> descending)
    THEN RunEnd(s, i + 1, descending)
    ELSE i - 1

RECURSIVE BinaryPos(_, _, _, _)
\* list.sort, binarysort: how many elements of the sorted prefix stay in front
\* of the pivot
BinaryPos(sorted, pivot, l, r) ==
    IF l >= r THEN l
    ELSE LET p == l + ((r - l) \div 2)
         IN  IF KeyLess(pivot.key, sorted[p + 1].key)
             THEN BinaryPos(sorted, pivot, l, p)
             ELSE BinaryPos(sorted, pivot, p + 1, r)

RECURSIVE BinarySort(_, _)
BinarySort(sorted, rest) ==
    IF rest = <<>> THEN sorted
    ELSE LET pos == BinaryPos(sorted, Head(rest), 0, Len(sorted))
         IN  BinarySort(SubSeq(sorted, 1, pos) \o <<Head(rest)>>
                            \o SubSeq(sorted, pos + 1, Len(sorted)),
                        Tail(rest))

\* list.sort of a list of fewer than 64 [key, item] records, ascending: the
\* initial run, then binary insertion of the rest
ListSort(s) ==
    IF Len(s) < 2 THEN s
    ELSE LET descending == KeyLess(s[2].key, s[1].key)
             n == RunEnd(s, 3, descending)
             run == IF descending THEN Reverse(SubSeq(s, 1, n)) ELSE SubSeq(s, 1, n)
         IN  BinarySort(run, SubSeq(s, n + 1, Len(s)))

\* all_events.sort(key=snipe_score, reverse=True): the list is reversed,
\* sorted and reversed again
SortByScoreDesc(events) ==
    LET keyed == [i \in 1..Len(events) |->
                    [key |-> <<0, events[i].snipe_score>>, item |-> events[i]]]
        sorted == Reverse(ListSort(Reverse(keyed)))
    IN  [i \in 1..Len(events) |-> sorted[i].item]

_is_cache_valid(timestamp, now) ==
    IF timestamp = None THEN FALSE
    ELSE now - timestamp < cache_ttl_seconds

\* telegram_notifier.send_critical_market_alert: whether it reports success
\* (send_message returns False when the notifier is not configured)
send_critical_market_alert == telegram_enabled

RadarInit ==
    /\ cache_data = <<>>
    /\ cache_timestamp = None
    /\ radar_now = 0
    /\ notified_critical_markets = {}
    /\ alerts_sent = <<>>
    /\ scan_last = [called |-> FALSE, use_cache |-> FALSE, queried |-> FALSE,
                    raised |-> FALSE, all_failed |-> FALSE, result |-> <<>>]
    /\ scans = 0
    /\ last_refresh = None

\* get_political_events(use_cache) against the given responses: the outcome of
\* the call as a record of the new cache, the notified set, the alerts sent,
\* what is returned, whether the exchange was queried and whether it raised
get_political_events(use_cache, responses) ==
    IF use_cache /\ _is_cache_valid(cache_timestamp, radar_now)
    THEN [data |-> cache_data, timestamp |-> cache_timestamp,
          notified |-> notified_critical_markets, alerted |-> <<>>,
          result |-> cache_data, queried |-> FALSE, raised |-> FALSE]
    ELSE LET acc == ScanLoop(Flatten(responses, 1), 1,
                        [all_events |-> <<>>, seen_ids |-> {},
                         notified |-> notified_critical_markets,
                         alerted |-> <<>>, raised |-> FALSE],
                        radar_now, send_critical_market_alert)
             all_events == SortByScoreDesc(acc.all_events)
         IN  IF acc.raised
             THEN [data |-> cache_data, timestamp |-> cache_timestamp,
                   notified |-> acc.notified, alerted |-> acc.alerted,
                   result |-> <<>>, queried |-> TRUE, raised |-> TRUE]
             ELSE [data |-> all_events, timestamp |-> radar_now,
                   notified |-> acc.notified, alerted |-> acc.alerted,
                   result |-> all_events, queried |-> TRUE, raised |-> FALSE]

\* what a call of get_political_events leaves behind, apart from the cached
\* list (which the Listener goes on to modify)
RadarAfterCall(use_cache, responses, out) ==
    /\ cache_timestamp' = out.timestamp
    /\ notified_critical_markets' = out.notified
    /\ scan_last' = [called |-> TRUE, use_cache |-> use_cache,
                     queried |-> out.queried, raised |-> out.raised,
                     all_failed |-> out.queried /\ responses = AllFail,
                     result |-> out.result]
    /\ scans' = scans + 1
    /\ last_refresh' = IF out.queried /\ ~out.raised THEN radar_now
                       ELSE last_refresh
    /\ UNCHANGED <<radar_now, telegram_enabled>>

\* a router, the dashboard or the control endpoint runs get_political_events
RadarScan(use_cache, responses) ==
    \E out \in {get_political_events(use_cache, responses)} :
        /\ cache_data' = out.data
        /\ alerts_sent' = alerts_sent \o out.alerted
        /\ RadarAfterCall(use_cache, responses, out)

clear_cache ==
    /\ cache_data' = <<>>
    /\ cache_timestamp' = None
    /\ last_refresh' = None
    /\ UNCHANGED <<radar_now, notified_critical_markets, alerts_sent, scan_last,
                   scans, telegram_enabled>>

\* the clock of datetime.now(): seconds per step, and steps per behaviour
RadarTickSeconds == 150
MaxRadarTicks == 2
\* bound on the calls of get_political_events in a behaviour
MaxScans == 3

Scan ==
    /\ scans < MaxScans
    /\ \E use_cache \in BOOLEAN, responses \in ExchangeResponses :
           RadarScan(use_cache, responses)
    /\ UNCHANGED <<pfVars, pfHist, exVars, trVars, lsVars, restVars>>

ClearCache ==
    /\ clear_cache
    /\ UNCHANGED <<pfVars, pfHist, exVars, trVars, lsVars, restVars>>

RadarTick ==
    /\ radar_now < MaxRadarTicks * RadarTickSeconds
    /\ radar_now' = radar_now + RadarTickSeconds
    /\ UNCHANGED <<cache_data, cache_timestamp, notified_critical_markets,
                   alerts_sent, scan_last, scans, last_refresh, telegram_enabled>>
    /\ UNCHANGED <<pfVars, pfHist, exVars, trVars, lsVars, restVars>>

-----------------------------------------------------------------------------
(* get_political_events run by several threads.  The Listener's loop is a
   thread of its own and the dashboard's endpoints run in the server's thread
   pool; the function takes no lock.  A thread can be preempted between any
   two statements; the steps here are the start of the call, each exchange
   query with the loop over its results, and the two stores to the cache. *)

Callers == {"listener", "dashboard"}

\* the responses the exchange gives to the queries of one call
CallerResponses == {ResponsesA, ResponsesB, ResponsesC}

IdleCaller ==
    [pc |-> "idle", responses |-> AllFail, q |-> 0, all_events |-> <<>>,
     seen_ids |-> {}, result |-> <<>>]

CallersInit ==
    /\ callers = [t \in Callers |-> IdleCaller]
    /\ query_sets = 0
    /\ built = {}

\* lines 363-366: the cache test of a call with use_cache=True
CallerEnters(t, responses) ==
    /\ callers[t].pc = "idle"
    /\ IF _is_cache_valid(cache_timestamp, radar_now)
       THEN /\ callers' = [callers EXCEPT ![t].pc = "returned",
                                          ![t].result = cache_data]
            /\ UNCHANGED query_sets
       ELSE /\ callers' = [callers EXCEPT ![t].pc = "query", ![t].q = 1,
                                          ![t].responses = responses]
            /\ query_sets' = query_sets + 1
    /\ UNCHANGED <<rdVars, built>>

\* lines 384-480: search_markets for the next query and the loop over its
\* results
CallerQueries(t) ==
    /\ callers[t].pc = "query"
    /\ LET c == callers[t]
           acc == ScanLoop(search_markets(c.responses[c.q]), 1,
                      [all_events |-> c.all_events, seen_ids |-> c.seen_ids,
                       notified |-> notified_critical_markets,
                       alerted |-> <<>>, raised |-> FALSE],
                      radar_now, send_critical_market_alert)
       IN  /\ callers' = [callers EXCEPT
                            ![t].pc = IF acc.raised THEN "raised"
                                      ELSE IF c.q = NumQueries THEN "sort"
                                      ELSE "query",
                            ![t].q = c.q + 1,
                            ![t].all_events = acc.all_events,
                            ![t].seen_ids = acc.seen_ids]
           /\ notified_critical_markets' = acc.notified
           /\ alerts_sent' = alerts_sent \o acc.alerted
    /\ UNCHANGED <<cache_data, cache_timestamp, radar_now, scan_last, scans,
                   last_refresh, telegram_enabled, query_sets, built>>

\* lines 483-486: the sort, and the store of the list
CallerStoresData(t) ==
    /\ callers[t].pc = "sort"
    /\ \E all_events \in {SortByScoreDesc(callers[t].all_events)} :
           /\ cache_data' = all_events
           /\ built' = built \cup {all_events}
           /\ callers' = [callers EXCEPT ![t].pc = "stamp",
                                         ![t].all_events = all_events]
    /\ UNCHANGED <<cache_timestamp, radar_now, notified_critical_markets,
                   alerts_sent, scan_last, scans, last_refresh,
                   telegram_enabled, query_sets>>

\* lines 487-490: the store of the timestamp, and the return
CallerReturns(t) ==
    /\ callers[t].pc = "stamp"
    /\ cache_timestamp' = radar_now
    /\ last_refresh' = radar_now
    /\ callers' = [callers EXCEPT ![t].pc = "returned",
                                  ![t].result = callers[t].all_events]
    /\ UNCHANGED <<cache_data, radar_now, notified_critical_markets,
                   alerts_sent, scan_last, scans, telegram_enabled,
                   query_sets, built>>

CallerEnter ==
    /\ \E t \in Callers, responses \in CallerResponses :
           CallerEnters(t, responses)
    /\ UNCHANGED <<lateVars, pfVars, pfHist, exVars, trVars, lsVars, anVars, cfgVars,
                   lcVars>>

CallerQuery ==
    /\ \E t \in Callers : CallerQueries(t)
    /\ UNCHANGED <<lateVars, pfVars, pfHist, exVars, trVars, lsVars, anVars, cfgVars,
                   lcVars>>

CallerStoreData ==
    /\ \E t \in Callers : CallerStoresData(t)
    /\ UNCHANGED <<lateVars, pfVars, pfHist, exVars, trVars, lsVars, anVars, cfgVars,
                   lcVars>>

CallerReturn ==
    /\ \E t \in Callers : CallerReturns(t)
    /\ UNCHANGED <<lateVars, pfVars, pfHist, exVars, trVars, lsVars, anVars, cfgVars,
                   lcVars>>

-----------------------------------------------------------------------------
(* SocialListener *)

ListenerInit(keywords) ==
    /\ targets = <<>>
    /\ favorites = {}
    /\ global_keywords = keywords
    /\ listener_keywords = keywords
    /\ cycle_count = 0
    /\ scraper = FALSE
    /\ last_tweet_ids = <<>>
    /\ last_news_links = {}
    /\ listener_pc = "update"
    /\ trades = EmptyBag
    /\ news_published = 0
    /\ tweets_published = 0
    /\ quiet_cycles = 0
    /\ analyzed = {}
    /\ reanalyzed = {}

\* the rows of the MarketFavorite table
FavoriteRows == {{}, {"m6", "m9"}}

RECURSIVE SelectById(_, _)
\* [e for e in events if ...], the condition given as the set of ids it keeps
SelectById(events, keep) ==
    IF events = <<>> THEN <<>>
    ELSE (IF Head(events).id \in keep THEN <<Head(events)>> ELSE <<>>)
         \o SelectById(Tail(events), keep)

\* self.targets.sort(key=(not is_favorite, -snipe_score))
SortTargets(ts) ==
    LET keyed == [i \in 1..Len(ts) |->
                    [key |-> <<IF ts[i].is_favorite THEN 0 ELSE 1,
                               IF ts[i].snipe_score = NaN THEN NaN
                               ELSE 0 - ts[i].snipe_score>>,
                     item |-> ts[i]]]
        sorted == ListSort(keyed)
    IN  [i \in 1..Len(ts) |-> sorted[i].item]

\* _update_targets: the dict of a target after the favorite marking and the
\* critical-alert loop
MarkTarget(e, favs) ==
    [e EXCEPT !.is_favorite = e.id \in favs,
              !.priority_boost = IF e.id \in favs THEN 150 ELSE 100,
              !._notified_critical = @ \/ e.urgency_rate >= 90]

RECURSIVE CriticalAlerts(_, _)
\* _update_targets: the ids of the targets the critical-alert loop alerts,
\* in the order of the sorted targets (old: the dicts before the loop)
CriticalAlerts(ts, old) ==
    IF ts = <<>> THEN <<>>
    ELSE LET before == CHOOSE e \in old : e.id = Head(ts).id
         IN  (IF before.urgency_rate >= 90 /\ ~before._notified_critical
              THEN <<Head(ts).id>> ELSE <<>>)
             \o CriticalAlerts(Tail(ts), old)

\* _update_targets.  The targets are the dicts of the cached list, so marking
\* them changes the cache; the logger.info that names critical_count raises
\* NameError, which the outer except logs, so the keywords are not reloaded.
_update_targets(responses, favs) ==
    \E out \in {get_political_events(TRUE, responses)} :
    LET active == {out.result[i].id : i \in
                     {j \in 1..Len(out.result) :
                         /\ out.result[j].days_remaining # None
                         /\ out.result[j].days_remaining >= 0}}
        marked == [i \in 1..Len(out.data) |->
                     IF out.data[i].id \in active
                     THEN MarkTarget(out.data[i], favs) ELSE out.data[i]]
        new_targets == SortTargets(SelectById(marked, active))
        dispatched == IF send_critical_market_alert
                      THEN CriticalAlerts(new_targets,
                               {out.data[k] : k \in 1..Len(out.data)})
                      ELSE <<>>
    IN  /\ RadarAfterCall(TRUE, responses, out)
        /\ IF out.raised
           THEN /\ cache_data' = out.data
                /\ alerts_sent' = alerts_sent \o out.alerted
                /\ UNCHANGED <<targets, favorites>>
           ELSE /\ cache_data' = marked
                /\ targets' = new_targets
                /\ favorites' = favs
                /\ alerts_sent' = alerts_sent \o out.alerted \o dispatched
        /\ UNCHANGED global_keywords

UpdateTargets ==
    /\ scans < MaxScans
    /\ \E responses \in ExchangeResponses, favs \in FavoriteRows :
           _update_targets(responses, favs)
    /\ UNCHANGED <<pfVars, pfHist, exVars, trVars, lsLoopVars, restVars>>

\* ---- the monitoring loop: _check_twitter, _check_news ----

\* len(RSS_FEEDS)
NumFeeds == 2
\* feed.entries[:10]
EntriesPerFeed == 10
\* get_tweets(handle, mode='user', number=5)
TweetsPerHandle == 5
\* the dedup structures are cut down to SeenKeep entries once they hold more
\* than SeenMax
SeenMax == 1000
SeenKeep == 500
\* time.sleep(2) at the end of a cycle
SleepSeconds == 2

\* Links are numbers.  The two feeds publish in batches of 10 entries each;
\* after news_published batches feed f serves the 10 links of its last batch.
FeedEntries(f, batches) ==
    IF batches = 0 THEN <<>>
    ELSE [k \in 1..EntriesPerFeed |->
            (batches - 1) * NumFeeds * EntriesPerFeed + (f - 1) * EntriesPerFeed + k]

\* what title and summary of a news entry contain, as the set of the phrases
\* the Listener looks for: the first entry of every batch of feed 1 quotes
\* "maga", the first of feed 2 is breaking news about Elon Musk
NewsText(link) ==
    IF link % (NumFeeds * EntriesPerFeed) = 1 THEN {"maga", "trump"}
    ELSE IF link % (NumFeeds * EntriesPerFeed) = EntriesPerFeed + 1
         THEN {"breaking", "elon musk", "elon", "musk"}
    ELSE {}

\* the handles _check_twitter derives from the persons of the targets
Handles == <<"realDonaldTrump", "elonmusk", "POTUS">>
HandleOf(person) ==
    IF person = "Trump" THEN 1
    ELSE IF person = "Elon Musk" THEN 2
    ELSE IF person = "Biden" THEN 3
    ELSE 0
TargetHandles(ts) ==
    {HandleOf(p) : p \in UNION {ts[i].persons : i \in 1..Len(ts)}} \ {0}

\* the links of the tweets the scraper returns for handle h: the pinned tweet
\* and the four latest ones of the batches published so far
TweetBase == 100000
TweetEntries(h, batches) ==
    <<h * TweetBase>>
    \o (IF batches = 0 THEN <<>>
        ELSE [k \in 1..(TweetsPerHandle - 1) |->
                h * TweetBase + (batches - 1) * (TweetsPerHandle - 1) + k])

\* the text of a tweet: the pinned tweet of realDonaldTrump says "maga"
TweetText(link) == IF link = 1 * TweetBase THEN {"maga"} ELSE {}

\* _extract_keywords: the quoted phrases of the (lowercase) title
_extract_keywords(target) == target.quoted

\* person.lower()
PersonLower(person) ==
    IF person = "Trump" THEN "trump"
    ELSE IF person = "Biden" THEN "biden"
    ELSE IF person = "Elon Musk" THEN "elon musk"
    ELSE "putin"

\* _analyze_content with any() in place of all() for a market that is not a
\* favorite
_analyze_content_AnyKeyword(text, target, keywords) ==
    LET kws == _extract_keywords(target)
    IN  IF kws = {} THEN FALSE
        ELSE IF kws \cap text # {} THEN TRUE
        ELSE \E k \in 1..Len(keywords) :
                 /\ keywords[k] \in text
                 /\ \E person \in target.persons : PersonLower(person) \in text

\* _analyze_content: whether it calls _trigger_snipe for the target
_analyze_content(text, target, keywords) ==
    LET kws == _extract_keywords(target)
    IN  IF kws = {} THEN FALSE
        ELSE IF target.is_favorite /\ kws \cap text # {} THEN TRUE
        ELSE IF ~target.is_favorite /\ kws \subseteq text THEN TRUE
        ELSE \E k \in 1..Len(keywords) :
                 /\ keywords[k] \in text
                 /\ \E person \in target.persons : PersonLower(person) \in text

RECURSIVE FreshLinks(_, _)
\* the links of the fetched entries that the dedup structure does not hold,
\* in the order they are met (each is added to the structure when met)
FreshLinks(entries, seen) ==
    IF entries = <<>> THEN <<>>
    ELSE IF Head(entries) \in seen THEN FreshLinks(Tail(entries), seen)
    ELSE <<Head(entries)>> \o FreshLinks(Tail(entries), seen \cup {Head(entries)})

\* _trigger_snipe: the row of the Trade table it adds (amount in cents; the
\* post stands for the trigger_event text).  It calls the Telegram notifier
\* and the log, and nothing else.
_trigger_snipe(target, source_type, link) ==
    [market_id |-> target.id, source_type |-> source_type, link |-> link,
     side |-> "BUY", outcome |-> "YES", amount |-> 10000]

RECURSIVE AnalyzeTargets(_, _, _, _, _)
\* for target in self.targets: _analyze_content(...): the Trade rows that
\* _trigger_snipe records for one post
AnalyzeTargets(text, source_type, link, ts, keywords) ==
    IF ts = <<>> THEN <<>>
    ELSE (IF _analyze_content(text, Head(ts), keywords)
          THEN <<_trigger_snipe(Head(ts), source_type, link)>>
          ELSE <<>>)
         \o AnalyzeTargets(text, source_type, link, Tail(ts), keywords)

RECURSIVE AnalyzeNews(_, _, _)
AnalyzeNews(links, ts, keywords) ==
    IF links = <<>> THEN <<>>
    ELSE AnalyzeTargets(NewsText(Head(links)), "News", Head(links), ts, keywords)
         \o AnalyzeNews(Tail(links), ts, keywords)

RECURSIVE AnalyzeTweets(_, _, _)
AnalyzeTweets(links, ts, keywords) ==
    IF links = <<>> THEN <<>>
    ELSE AnalyzeTargets(TweetText(Head(links)), "Twitter", Head(links), ts, keywords)
         \o AnalyzeTweets(Tail(links), ts, keywords)

Range(s) == {s[i] : i \in 1..Len(s)}

RECURSIVE RecordTrades(_, _)
\* db.add(trade); db.commit() for each of the rows
RecordTrades(table, rows) ==
    IF rows = <<>> THEN table
    ELSE RecordTrades(table (+) SetToBag({Head(rows)}), Tail(rows))

\* set(list(self.last_news_links)[-500:]): the order in which a set of strings
\* is listed is arbitrary; the outcomes modelled are the listings in ascending
\* and in descending order of the link number
KeepOfSet(links, order) ==
    IF order = "ascending"
    THEN {x \in links : Cardinality({y \in links : y > x}) < SeenKeep}
    ELSE {x \in links : Cardinality({y \in links : y < x}) < SeenKeep}

\* dict(list(self.last_tweet_ids.items())[-500:]): the last 500 inserted
KeepOfDict(ids) ==
    IF Len(ids) > SeenMax THEN SubSeq(ids, Len(ids) - SeenKeep + 1, Len(ids))
    ELSE ids

\* history: the posts analyzed so far, and those analyzed once more
Analyzed(fresh) ==
    /\ analyzed' = analyzed \cup Range(fresh)
    /\ reanalyzed' = reanalyzed \cup (Range(fresh) \cap analyzed)

\* _check_news, the feeds serving the entries of the batches published so far
_check_news(batches) ==
    \E fresh \in {FreshLinks(FeedEntries(1, batches) \o FeedEntries(2, batches),
                             last_news_links)} :
        /\ trades' = RecordTrades(trades,
                                  AnalyzeNews(fresh, targets, global_keywords))
        /\ Analyzed(fresh)
        /\ LET links == last_news_links \cup Range(fresh)
           IN  IF Cardinality(links) > SeenMax
               THEN \E order \in {"ascending", "descending"} :
                        last_news_links' = KeepOfSet(links, order)
               ELSE last_news_links' = links

RECURSIVE ScrapeHandles(_, _)
\* the tweets of the handles, scraped in the given order
ScrapeHandles(order, batches) ==
    IF order = <<>> THEN <<>>
    ELSE TweetEntries(Head(order), batches) \o ScrapeHandles(Tail(order), batches)

\* the orders in which `for handle in handles` may visit a set of handles
HandleOrders(hs) ==
    {o \in UNION {[1..n -> hs] : n \in {Cardinality(hs)}} :
        \A i, j \in 1..Len(o) : i # j => o[i] # o[j]}

\* _check_twitter.  init_ok: Nitter() can be constructed; scrape_ok: get_tweets
\* returns (the same for every handle of this cycle)
_check_twitter(init_ok, scrape_ok, batches) ==
    IF ~scraper /\ ~init_ok
    THEN UNCHANGED <<scraper, last_tweet_ids, trades, analyzed, reanalyzed>>
    ELSE /\ scraper' = TRUE
         /\ IF ~scrape_ok
            THEN /\ last_tweet_ids' = KeepOfDict(last_tweet_ids)
                 /\ UNCHANGED <<trades, analyzed, reanalyzed>>
            ELSE \E order \in HandleOrders(TargetHandles(targets)) :
                 \E fresh \in {FreshLinks(ScrapeHandles(order, batches),
                                          Range(last_tweet_ids))} :
                     /\ trades' = RecordTrades(trades,
                                      AnalyzeTweets(fresh, targets, global_keywords))
                     /\ Analyzed(fresh)
                     /\ last_tweet_ids' = KeepOfDict(last_tweet_ids \o fresh)

\* bounds of a behaviour of the loop: its cycles, the cycles in which the feeds
\* serve nothing new, and the batches of tweets published
MaxCycles == 53
MaxQuietCycles == 1
MaxTweetBatches == 1

\* the responses of the exchange while the loop runs
ListenerResponses == {ResponsesA}

\* _monitor_loop: the target update every 10th cycle, and the cycle counter
UpdateStep ==
    /\ cycle_count < MaxCycles
    /\ IF cycle_count % 10 = 0
       THEN \E responses \in ListenerResponses, favs \in FavoriteRows :
                _update_targets(responses, favs)
       ELSE UNCHANGED <<rdVars, targets, favorites, global_keywords>>
    /\ cycle_count' = cycle_count + 1
    /\ UNCHANGED <<scraper, last_tweet_ids, last_news_links, trades,
                   news_published, tweets_published, quiet_cycles, analyzed,
                   reanalyzed>>

MonitorUpdate ==
    /\ listener_pc = "update"
    /\ UpdateStep
    /\ listener_pc' = "twitter"
    /\ UNCHANGED <<pfVars, pfHist, exVars, trVars, restVars>>

\* _monitor_loop: _check_twitter if there are targets
TwitterStep ==
    /\ IF Len(targets) > 0
       THEN \E init_ok \in BOOLEAN, scrape_ok \in BOOLEAN,
               batch \in {0} \cup {b \in {1} : tweets_published < MaxTweetBatches} :
                /\ tweets_published' = tweets_published + batch
                /\ _check_twitter(init_ok, scrape_ok, tweets_published + batch)
       ELSE UNCHANGED <<scraper, last_tweet_ids, trades, analyzed, reanalyzed,
                        tweets_published>>
    /\ UNCHANGED <<targets, favorites, global_keywords, cycle_count,
                   last_news_links, news_published, quiet_cycles>>
    /\ UNCHANGED rdVars

MonitorTwitter ==
    /\ listener_pc = "twitter"
    /\ TwitterStep
    /\ listener_pc' = "news"
    /\ UNCHANGED <<pfVars, pfHist, exVars, trVars, restVars>>

\* _monitor_loop: _check_news, then the sleep
NewsStep ==
    /\ \E batch \in {1} \cup {b \in {0} : quiet_cycles < MaxQuietCycles} :
           /\ news_published' = news_published + batch
           /\ quiet_cycles' = quiet_cycles + (1 - batch)
           /\ _check_news(news_published + batch)
    /\ radar_now' = radar_now + SleepSeconds
    /\ UNCHANGED <<targets, favorites, global_keywords, cycle_count, scraper,
                   last_tweet_ids, tweets_published>>
    /\ UNCHANGED <<cache_data, cache_timestamp, notified_critical_markets,
                   alerts_sent, scan_last, scans, last_refresh, telegram_enabled>>

MonitorNews ==
    /\ listener_pc = "news"
    /\ NewsStep
    /\ listener_pc' = "update"
    /\ UNCHANGED <<pfVars, pfHist, exVars, trVars, restVars>>

\* ---- the listener_keywords setting ----

\* the values the setting is given
KeywordSettings == {<<"breaking">>, <<"urgent">>}

\* update_setting(key="listener_keywords", value)
PutKeywords ==
    /\ \E value \in KeywordSettings \ {listener_keywords} :
           listener_keywords' = value
    /\ UNCHANGED <<lateVars, pfVars, pfHist, exVars, trVars, rdVars, lsVars, thVars,
                   anVars, lcVars>>

\* ---- start(), stop() and the threads of _monitor_loop ----

\* bounds: the threads that start() creates in a behaviour, and the cycles
\* the loops begin
MaxLoopThreads == 2
MaxLoopCycles == 1

LoopThreads == 1..MaxLoopThreads

LifecycleInit ==
    /\ loops = [t \in LoopThreads |-> "none"]
    /\ stopped_in_flight = FALSE

InCycle(t) == loops[t] \in {"update", "twitter", "news"}

\* start_listener / start(): nothing if the flag is set, else the flag is
\* set and a new thread runs _monitor_loop
Start ==
    /\ ~is_running
    /\ \E t \in LoopThreads :
           /\ loops[t] = "none"
           /\ \A u \in LoopThreads : u < t => loops[u] # "none"
           /\ loops' = [loops EXCEPT ![t] = "top"]
    /\ is_running' = TRUE
    /\ UNCHANGED stopped_in_flight
    /\ UNCHANGED <<lateVars, pfVars, pfHist, exVars, trVars, rdVars, lsVars, thVars,
                   anVars, cfgVars>>

\* stop_listener / stop(): the flag is cleared
Stop ==
    /\ is_running
    /\ is_running' = FALSE
    /\ stopped_in_flight' = (stopped_in_flight \/ \E t \in LoopThreads : InCycle(t))
    /\ UNCHANGED loops
    /\ UNCHANGED <<lateVars, pfVars, pfHist, exVars, trVars, rdVars, lsVars, thVars,
                   anVars, cfgVars>>

\* the loop as "while True": the thread begins a cycle whatever the flag
LoopTops_IgnoresFlag(t) ==
    /\ loops[t] = "top"
    /\ cycle_count < MaxLoopCycles
    /\ loops' = [loops EXCEPT ![t] = "update"]
    /\ UNCHANGED <<is_running, stopped_in_flight>>
    /\ UNCHANGED <<lateVars, pfVars, pfHist, exVars, trVars, rdVars, lsVars, thVars,
                   anVars, cfgVars>>

\* while self.is_running: the test that a thread makes before every cycle
LoopTops(t) ==
    /\ loops[t] = "top"
    /\ is_running => cycle_count < MaxLoopCycles
    /\ loops' = [loops EXCEPT ![t] = IF is_running THEN "update" ELSE "exited"]
    /\ UNCHANGED <<is_running, stopped_in_flight>>
    /\ UNCHANGED <<lateVars, pfVars, pfHist, exVars, trVars, rdVars, lsVars, thVars,
                   anVars, cfgVars>>

\* the three steps of the cycle of thread t
LoopUpdates(t) ==
    /\ loops[t] = "update"
    /\ UpdateStep
    /\ loops' = [loops EXCEPT ![t] = "twitter"]
    /\ UNCHANGED <<listener_pc, is_running, stopped_in_flight>>
    /\ UNCHANGED <<lateVars, pfVars, pfHist, exVars, trVars, thVars, anVars, cfgVars>>

LoopTwitters(t) ==
    /\ loops[t] = "twitter"
    /\ TwitterStep
    /\ loops' = [loops EXCEPT ![t] = "news"]
    /\ UNCHANGED <<listener_pc, is_running, stopped_in_flight>>
    /\ UNCHANGED <<lateVars, pfVars, pfHist, exVars, trVars, thVars, anVars, cfgVars>>

LoopNewss(t) ==
    /\ loops[t] = "news"
    /\ NewsStep
    /\ loops' = [loops EXCEPT ![t] = "top"]
    /\ UNCHANGED <<listener_pc, is_running, stopped_in_flight>>
    /\ UNCHANGED <<lateVars, pfVars, pfHist, exVars, trVars, thVars, anVars, cfgVars>>

LoopTop == \E t \in LoopThreads : LoopTops(t)

LoopUpdate == \E t \in LoopThreads : LoopUpdates(t)

LoopTwitter == \E t \in LoopThreads : LoopTwitters(t)

LoopNews == \E t \in LoopThreads : LoopNewss(t)

\* ---- the exceptions raised in a cycle of _monitor_loop ----

\* bound: the exceptions raised in a behaviour
MaxFaults == 2

\* time.sleep(5) of the except clause of the loop
RecoverySeconds == 5

\* mon, when start() has set the flag and created the thread.
\*   fault, handler  the exception the last step of the cycle raised and the
\*                   function whose except clause caught it
\*   slept           the seconds the last step of the cycle slept
\*   cycle_count     modulo 10, all that the loop reads of it
MonInit ==
    mon = [pc |-> "top", is_running |-> TRUE, cycle_count |-> 0, raised |-> 0,
           logged |-> 0, fault |-> "none", handler |-> "none", slept |-> 0]

\* a step of the cycle: the exception it raised (or "none"), the except
\* clause that caught and logged it, the statement the thread goes on with,
\* the sleep it made, and whether cycle_count += 1 was executed
MonOutcome(fault, handler, next, slept, counted) ==
    mon' = [mon EXCEPT !.pc = next, !.fault = fault, !.handler = handler,
                       !.slept = slept,
                       !.raised = @ + (IF fault = "none" THEN 0 ELSE 1),
                       !.logged = @ + (IF handler = "none" THEN 0 ELSE 1),
                       !.cycle_count = IF counted THEN (@ + 1) % 10 ELSE @]

\* the loop without its try: the exception ends the thread
LoopHandler_Reraises(fault) ==
    mon' = [mon EXCEPT !.pc = "exited", !.fault = fault, !.handler = "none",
                       !.slept = 0, !.raised = @ + 1]

\* except Exception of _monitor_loop: logger.error, _log_system, time.sleep(5)
LoopHandler(fault) ==
    MonOutcome(fault, "_monitor_loop", "top", RecoverySeconds, FALSE)

\* stop()
MonStop ==
    /\ mon.is_running
    /\ mon' = [mon EXCEPT !.is_running = FALSE]
    /\ UNCHANGED notMon

\* while self.is_running
MonTop ==
    /\ mon.pc = "top"
    /\ mon' = [mon EXCEPT !.pc = IF mon.is_running THEN "update" ELSE "exited"]
    /\ UNCHANGED notMon

\* the target refresh of every 10th cycle, whose exceptions _update_targets
\* catches itself, and cycle_count += 1
MonUpdate ==
    /\ mon.pc = "update"
    /\ \/ MonOutcome("none", "none", "twitter", 0, TRUE)
       \/ /\ mon.raised < MaxFaults
          /\ mon.cycle_count % 10 = 0
          /\ MonOutcome("refresh", "_update_targets", "twitter", 0, TRUE)
    /\ UNCHANGED notMon

\* _check_twitter if there are targets: Nitter() fails (init), get_tweets or
\* the analysis of a tweet fails (fetch), the Trade row of a snipe cannot be
\* written (trade), or a statement outside the try blocks fails (unexpected)
MonTwitter ==
    /\ mon.pc = "twitter"
    /\ \/ MonOutcome("none", "none", "news", 0, FALSE)
       \/ /\ mon.raised < MaxFaults
          /\ \/ \E fault \in {"init", "fetch"} :
                    MonOutcome(fault, "_check_twitter", "news", 0, FALSE)
             \/ MonOutcome("trade", "_trigger_snipe", "news", 0, FALSE)
             \/ LoopHandler("unexpected")
    /\ UNCHANGED notMon

\* _check_news and the sleep of the cycle: a feed or the analysis of an entry
\* fails (parse), the Trade row of a snipe cannot be written (trade), or a
\* statement outside the try blocks fails (unexpected)
MonNews ==
    /\ mon.pc = "news"
    /\ \/ MonOutcome("none", "none", "top", SleepSeconds, FALSE)
       \/ /\ mon.raised < MaxFaults
          /\ \/ MonOutcome("parse", "_check_news", "top", SleepSeconds, FALSE)
             \/ MonOutcome("trade", "_trigger_snipe", "top", SleepSeconds, FALSE)
             \/ LoopHandler("unexpected")
    /\ UNCHANGED notMon

\* ---- one call of _analyze_content, on any content and target ----

\* the phrases a content can contain
TextAtoms == {"maga", "covfefe", "breaking", "trump", "not"}

\* the targets: "Will Trump say 'MAGA' or 'covfefe'?" and the like, with the
\* marking of _update_targets
AnalysisTargets ==
    {[id |-> "m1", quoted |-> q, is_favorite |-> f, persons |-> p,
      snipe_score |-> 89, priority_boost |-> IF f THEN 150 ELSE 100] :
        q \in {{}, {"maga"}, {"maga", "covfefe"}}, f \in BOOLEAN,
        p \in {{}, {"Trump"}}}

\* the values of the listener_keywords setting
AnalysisKeywords == {<<>>, <<"breaking">>}

\* the link of the analyzed post
AnalysisLink == 7

NoAnalysis ==
    [called |-> FALSE, text |-> {},
     target |-> [id |-> "", quoted |-> {}, is_favorite |-> FALSE,
                 persons |-> {}, snipe_score |-> 0, priority_boost |-> 100],
     triggered |-> 0]

\* _analyze_content(text, "News", source_name, target), with the
\* _trigger_snipe it may call
Analyze ==
    /\ ~analysis.called
    /\ \E text \in SUBSET TextAtoms, target \in AnalysisTargets :
           LET rows == AnalyzeTargets(text, "News", AnalysisLink, <<target>>,
                                      global_keywords)
           IN  /\ analysis' = [called |-> TRUE, text |-> text,
                               target |-> target, triggered |-> Len(rows)]
               /\ trades' = RecordTrades(trades, rows)
    /\ UNCHANGED <<targets, favorites, global_keywords, cycle_count, scraper,
                   last_tweet_ids, last_news_links, listener_pc,
                   news_published, tweets_published, quiet_cycles, analyzed,
                   reanalyzed>>
    /\ UNCHANGED <<lateVars, pfVars, pfHist, exVars, trVars, rdVars, thVars, cfgVars,
                   lcVars>>

-----------------------------------------------------------------------------
(* WalletScorer.calculate_score *)

\* a historical trade: profit and bet_size in units of $100 (0 also for a
\* missing key, as t.get(key, 0) reads it), has_timing when the dict has both
\* time_to_move and market_duration (seconds)
HistTrade(outcome, profit, bet_size, has_timing, time_to_move, market_duration) ==
    [outcome |-> outcome, profit |-> profit, bet_size |-> bet_size,
     has_timing |-> has_timing, time_to_move |-> time_to_move,
     market_duration |-> market_duration]

\* the trades the histories are made of
ScoreTrades ==
    {HistTrade("WIN", 20, 10, TRUE, 0, 4), HistTrade("WIN", 5, 10, TRUE, 1, 4),
     HistTrade("WIN", 5, 5, FALSE, 0, 0), HistTrade("WIN", 1, 20, TRUE, 2, 4),
     HistTrade("LOSS", -10, 10, TRUE, 4, 4),
     HistTrade("LOSS", -5, 5, FALSE, 0, 0),
     HistTrade("OPEN", 0, 10, TRUE, 2, 4), HistTrade("WIN", 5, 0, FALSE, 0, 0),
     HistTrade("WIN", 20, 10, TRUE, 0, 0), HistTrade("LOSS", -20, 5, TRUE, 6, 4)}

\* bound: the trades of a history
MaxHistory == 2

\* the historical-trade lists calculate_score is called with
ScoreHistories == UNION {[1..n -> ScoreTrades] : n \in 0..MaxHistory}

RECURSIVE SumSeq(_)
\* sum(...) of a sequence of numbers
SumSeq(xs) == IF xs = <<>> THEN 0 ELSE Head(xs) + SumSeq(Tail(xs))

Abs(x) == IF x < 0 THEN 0 - x ELSE x

\* _assign_grade(num / den), den > 0
_assign_grade(num, den) ==
    IF 100 * num >= 80 * den THEN "A"
    ELSE IF 100 * num >= 60 * den THEN "B"
    ELSE IF 100 * num >= 40 * den THEN "C"
    ELSE "D"

\* calculate_score(wallet_address, historical_trades): the grade, the final
\* score as the fraction num / den and the breakdown's roi_adjusted as the
\* fraction roi_adjusted_n / roi_adjusted_d, or the ZeroDivisionError it raises.
\* Every intermediate value is kept as an exact fraction.
calculate_score(historical_trades) ==
    IF historical_trades = <<>>
    THEN [raised |-> "-", grade |-> "D", num |-> 0, den |-> 1,
          roi_adjusted_n |-> 0, roi_adjusted_d |-> 1]
    ELSE
    LET n == Len(historical_trades)
        t(i) == historical_trades[i]
        wins == Cardinality({i \in 1..n : t(i).outcome = "WIN"})
        losses == Cardinality({i \in 1..n : t(i).outcome = "LOSS"})
        total_markets == wins + losses
        \* success_rate = sr_n / sr_d
        sr_n == IF total_markets > 0 THEN wins ELSE 0
        sr_d == IF total_markets > 0 THEN total_markets ELSE 1
        sum_profit == SumSeq([i \in 1..n |-> t(i).profit])
        total_invested == SumSeq([i \in 1..n |-> Abs(t(i).bet_size)])
        \* roi / (avg_bet_size / 1000) = 10 * n * sum_profit / total_invested^2
        \* in units of $100; the divisor is 0.0 when nothing was invested
        roi_n == 10 * n * sum_profit
        roi_d == total_invested * total_invested
        \* max(-2.0, min(5.0, risk_adjusted_roi)) = ra_n / ra_d
        ra_n == IF roi_n > 5 * roi_d THEN 5
                ELSE IF roi_n < (0 - 2) * roi_d THEN 0 - 2 ELSE roi_n
        ra_d == IF roi_n > 5 * roi_d \/ roi_n < (0 - 2) * roi_d THEN 1 ELSE roi_d
        timing_entries == SelectSeq(historical_trades, LAMBDA e : e.has_timing)
        k == Len(timing_entries)
        sum_move == SumSeq([i \in 1..k |-> timing_entries[i].time_to_move])
        sum_duration == SumSeq([i \in 1..k |-> timing_entries[i].market_duration])
        \* max(0.0, min(1.0, 1.0 - avg_entry_timing / avg_market_duration))
        ts_n == IF k = 0 THEN 1
                ELSE Max(0, Min(sum_duration, sum_duration - sum_move))
        ts_d == IF k = 0 THEN 2 ELSE sum_duration
        \* final_score = 0.4 sr + 0.3 (ra + 1) / 6 + 0.3 ts, times 100
        num == 40 * sr_n * ra_d * ts_d + 5 * (ra_n + ra_d) * sr_d * ts_d
               + 30 * ts_n * sr_d * ra_d
        den == 100 * sr_d * ra_d * ts_d
    IN  IF total_invested = 0 \/ (k > 0 /\ sum_duration = 0)
        THEN [raised |-> "ZeroDivisionError", grade |-> "-", num |-> 0, den |-> 1,
              roi_adjusted_n |-> 0, roi_adjusted_d |-> 1]
        ELSE [raised |-> "-", grade |-> _assign_grade(num, den),
              num |-> num, den |-> den,
              roi_adjusted_n |-> ra_n, roi_adjusted_d |-> ra_d]

NoScore == [called |-> FALSE, historical_trades |-> <<>>, raised |-> "-",
            grade |-> "-", num |-> 0, den |-> 1, roi_adjusted_n |-> 0,
            roi_adjusted_d |-> 1]

\* wallet_scorer.calculate_score(wallet_address, historical_trades)
CalculateScore ==
    /\ \E historical_trades \in ScoreHistories :
           LET out == calculate_score(historical_trades)
           IN  score_last' = [called |-> TRUE,
                              historical_trades |-> historical_trades,
                              raised |-> out.raised, grade |-> out.grade,
                              num |-> out.num, den |-> out.den,
                              roi_adjusted_n |-> out.roi_adjusted_n,
                              roi_adjusted_d |-> out.roi_adjusted_d]
    /\ UNCHANGED notSc

-----------------------------------------------------------------------------
(* update_wallet_score and get_wallet_grade as coroutines on one wallet *)

\* bound: the calls made on the wallet
MaxGradeCalls == 3

GradeCalls == 1..MaxGradeCalls

\* the grades calculate_score hands to update_wallet_score
UpdateGrades == {"A", "B"}

IdleGradeCall ==
    [kind |-> "idle", pc |-> "idle", grade |-> NoGrade, saw_cache |-> NoGrade,
     saw_store |-> NoGrade, result |-> "-"]

\* a connected scorer, no row and no key for the wallet
WgInit ==
    wg = [store |-> NoGrade, cache |-> NoGrade,
          calls |-> [c \in GradeCalls |-> IdleGradeCall]]

\* update_wallet_score up to its await: the row is written and committed
WgUpdateCommits(c, grade) ==
    /\ wg.calls[c].kind = "idle"
    /\ wg' = [wg EXCEPT !.store = grade,
                        !.calls[c] = [IdleGradeCall EXCEPT !.kind = "update",
                                          !.pc = "setex", !.grade = grade]]
    /\ UNCHANGED notWg

\* update_wallet_score: its setex takes effect and the call returns
WgUpdateCaches(c) ==
    /\ wg.calls[c].kind = "update" /\ wg.calls[c].pc = "setex"
    /\ wg' = [wg EXCEPT !.cache = wg.calls[c].grade,
                        !.calls[c].pc = "done",
                        !.calls[c].result = wg.calls[c].grade]
    /\ UNCHANGED notWg

\* get_wallet_grade: its redis get takes effect; a hit is returned
WgGetReadsCache(c) ==
    /\ wg.calls[c].kind = "idle"
    /\ wg' = [wg EXCEPT !.calls[c] =
                  IF wg.cache # NoGrade
                  THEN [IdleGradeCall EXCEPT !.kind = "get", !.pc = "done",
                            !.saw_cache = wg.cache, !.result = wg.cache]
                  ELSE [IdleGradeCall EXCEPT !.kind = "get", !.pc = "query"]]
    /\ UNCHANGED notWg

\* get_wallet_grade after a miss: the row is read; no row gives UNKNOWN
WgGetQueries(c) ==
    /\ wg.calls[c].kind = "get" /\ wg.calls[c].pc = "query"
    /\ wg' = [wg EXCEPT !.calls[c] =
                  IF wg.store # NoGrade
                  THEN [@ EXCEPT !.pc = "setex", !.grade = wg.store,
                                 !.saw_store = wg.store]
                  ELSE [@ EXCEPT !.pc = "done", !.result = "UNKNOWN"]]
    /\ UNCHANGED notWg

\* get_wallet_grade: the re-caching setex takes effect and the grade read
\* from the row is returned
WgGetRecaches(c) ==
    /\ wg.calls[c].kind = "get" /\ wg.calls[c].pc = "setex"
    /\ wg' = [wg EXCEPT !.cache = wg.calls[c].grade,
                        !.calls[c].pc = "done",
                        !.calls[c].result = wg.calls[c].grade]
    /\ UNCHANGED notWg

\* the key's one-hour TTL runs out
WgExpire ==
    /\ wg.cache # NoGrade
    /\ wg' = [wg EXCEPT !.cache = NoGrade]
    /\ UNCHANGED notWg

WgUpdateCommit ==
    \E c \in GradeCalls, grade \in UpdateGrades : WgUpdateCommits(c, grade)

WgUpdateCache == \E c \in GradeCalls : WgUpdateCaches(c)

WgGetReadCache == \E c \in GradeCalls : WgGetReadsCache(c)

WgGetQuery == \E c \in GradeCalls : WgGetQueries(c)

WgGetRecache == \E c \in GradeCalls : WgGetRecaches(c)

-----------------------------------------------------------------------------
(* SignalPublisher.emit_signal and get_recent_signals, step by step *)

\* ltrim(key, 0, 99)
ListKeep == 100

\* bounds: the signals emitted in a behaviour, and the failures of Redis and
\* of the database in it
MaxEmits == 2
MaxPubFaults == 2

\* the numbers of signals that signals:m1 holds when the process starts (the
\* list lives in Redis and was filled by the emits of earlier runs)
PubStartCounts == {0, 2, 99, 100}

\* the limits get_recent_signals is called with
RecentLimits == {0, 1, 10, 150}

NoEmit == [pc |-> "idle", market_id |-> "-", id |-> 0, result |-> "-"]

NoRecent == [called |-> FALSE, market_id |-> "-", limit |-> 0, raised |-> FALSE,
             result |-> <<>>]

\* the signals n, n-1, ..., 1
RECURSIVE Countdown(_)
Countdown(n) == IF n = 0 THEN <<>> ELSE <<n>> \o Countdown(n - 1)

\* Redis LRANGE key start stop on a list: negative offsets count from the
\* end of the list, offsets beyond the list are cut to it
LRange(list, start, stop) ==
    LET len == Len(list)
        first == IF start < 0 THEN Max(len + start, 0) ELSE start
        last  == IF stop < 0 THEN len + stop ELSE Min(stop, len - 1)
    IN  IF first > last THEN <<>> ELSE SubSeq(list, first + 1, last + 1)

\* SignalPublisher.__init__, with the signals of earlier runs in Redis and in
\* the SnipeSignal table
PublisherInit ==
    /\ pub_connected = FALSE
    /\ \E n \in PubStartCounts :
           /\ redis_lists = [m \in MarketIds |->
                                IF m = "m1" THEN Countdown(n) ELSE <<>>]
           /\ emitted = n
           /\ pub_start = n
           /\ channel = 1..n
           /\ appended = 1..n
           /\ persisted = 1..n
    /\ emit = NoEmit
    /\ db_tasks = {}
    /\ pub_faults = 0
    /\ recent_last = NoRecent

\* a failure of Redis or of the database may happen at this step
MayFail == pub_faults < MaxPubFaults

\* what a step of emit_signal leaves alone besides the variables it names
EmitFrame == /\ recent_last' = NoRecent
             /\ UNCHANGED <<pub_start, notPub>>

\* emit_signal up to the payload: connect() if not connected, "return False"
\* if that failed
EmitConnects(market_id, connects) ==
    /\ emit.pc = "idle"
    /\ emitted < pub_start + MaxEmits
    /\ pub_connected' = (pub_connected \/ connects)
    /\ IF pub_connected \/ connects
       THEN /\ emitted' = emitted + 1
            /\ emit' = [pc |-> "publish", market_id |-> market_id,
                        id |-> emitted + 1, result |-> "-"]
            /\ UNCHANGED pub_faults
       ELSE /\ emit' = [NoEmit EXCEPT !.result = "False"]
            /\ pub_faults' = pub_faults + 1
            /\ UNCHANGED emitted
    /\ UNCHANGED <<redis_lists, db_tasks, channel, appended, persisted>>
    /\ EmitFrame

\* await redis_client.publish("snipe_signals", ...), then
\* asyncio.create_task(self._log_to_db(...)) if a session was passed
EmitPublishes(ok, has_db) ==
    /\ emit.pc = "publish"
    /\ IF ok
       THEN /\ channel' = channel \cup {emit.id}
            /\ db_tasks' = IF has_db THEN db_tasks \cup {emit.id} ELSE db_tasks
            /\ emit' = [emit EXCEPT !.pc = "lpush"]
            /\ UNCHANGED pub_faults
       ELSE /\ emit' = [NoEmit EXCEPT !.result = "False"]
            /\ pub_faults' = pub_faults + 1
            /\ UNCHANGED <<channel, db_tasks>>
    /\ UNCHANGED <<pub_connected, redis_lists, emitted, appended, persisted>>
    /\ EmitFrame

\* await redis_client.lpush(f"signals:{market_id}", ...)
EmitPushes(ok) ==
    /\ emit.pc = "lpush"
    /\ IF ok
       THEN /\ redis_lists' = [redis_lists EXCEPT ![emit.market_id] =
                                  <<emit.id>> \o @]
            /\ appended' = appended \cup {emit.id}
            /\ emit' = [emit EXCEPT !.pc = "ltrim"]
            /\ UNCHANGED pub_faults
       ELSE /\ emit' = [NoEmit EXCEPT !.result = "False"]
            /\ pub_faults' = pub_faults + 1
            /\ UNCHANGED <<redis_lists, appended>>
    /\ UNCHANGED <<pub_connected, db_tasks, emitted, channel, persisted>>
    /\ EmitFrame

\* await redis_client.ltrim(f"signals:{market_id}", 0, 99); return True
EmitTrims(ok) ==
    /\ emit.pc = "ltrim"
    /\ IF ok
       THEN /\ redis_lists' = [redis_lists EXCEPT ![emit.market_id] =
                                  LRange(@, 0, ListKeep - 1)]
            /\ emit' = [NoEmit EXCEPT !.result = "True"]
            /\ UNCHANGED pub_faults
       ELSE /\ emit' = [NoEmit EXCEPT !.result = "False"]
            /\ pub_faults' = pub_faults + 1
            /\ UNCHANGED redis_lists
    /\ UNCHANGED <<pub_connected, db_tasks, emitted, channel, appended,
                   persisted>>
    /\ EmitFrame

\* _log_to_db, run by the event loop: the row is committed, or the exception
\* is logged and dropped
LogsToDb(id, ok) ==
    /\ id \in db_tasks
    /\ db_tasks' = db_tasks \ {id}
    /\ IF ok
       THEN persisted' = persisted \cup {id} /\ UNCHANGED pub_faults
       ELSE pub_faults' = pub_faults + 1 /\ UNCHANGED persisted
    /\ UNCHANGED <<pub_connected, redis_lists, emit, emitted, channel,
                   appended>>
    /\ EmitFrame

\* get_recent_signals(market_id, limit), connected: lrange(key, 0, limit - 1),
\* and [] if it raises
get_recent_signals(market_id, limit, ok) ==
    /\ pub_connected
    /\ recent_last' = [called |-> TRUE, market_id |-> market_id,
                       limit |-> limit, raised |-> ~ok,
                       result |-> IF ok
                                  THEN LRange(redis_lists[market_id], 0,
                                              limit - 1)
                                  ELSE <<>>]
    /\ pub_faults' = pub_faults + (IF ok THEN 0 ELSE 1)
    /\ UNCHANGED <<pub_connected, redis_lists, emit, db_tasks, emitted,
                   channel, appended, persisted, pub_start>>
    /\ UNCHANGED notPub

EmitConnect ==
    \E market_id \in MarketIds, connects \in {TRUE} \cup {c \in {FALSE} : MayFail} :
        EmitConnects(market_id, connects)

EmitPublish ==
    \E ok \in {TRUE} \cup {c \in {FALSE} : MayFail}, has_db \in BOOLEAN :
        EmitPublishes(ok, has_db)

EmitPush == \E ok \in {TRUE} \cup {c \in {FALSE} : MayFail} : EmitPushes(ok)

EmitTrim == \E ok \in {TRUE} \cup {c \in {FALSE} : MayFail} : EmitTrims(ok)

LogToDb ==
    \E id \in db_tasks, ok \in {TRUE} \cup {c \in {FALSE} : MayFail} :
        LogsToDb(id, ok)

GetRecent ==
    \E market_id \in MarketIds, limit \in RecentLimits,
       ok \in {TRUE} \cup {c \in {FALSE} : MayFail} :
        get_recent_signals(market_id, limit, ok)

-----------------------------------------------------------------------------
(* Specifications: each component driven by its callers *)

\* no thread is inside get_political_events and no content has been analyzed
\* the publisher when nothing was ever emitted
PublisherIdle ==
    /\ pub_connected = FALSE
    /\ redis_lists = [m \in MarketIds |-> <<>>]
    /\ emit = NoEmit
    /\ db_tasks = {}
    /\ emitted = 0 /\ channel = {} /\ appended = {} /\ persisted = {}
    /\ pub_start = 0
    /\ pub_faults = 0
    /\ recent_last = NoRecent

EarlyLateInit ==
    /\ sizing = NoSizing /\ MonInit /\ RaceInit /\ score_last = NoScore
    /\ WgInit /\ urgency_probe = NoProbe

LateInit == EarlyLateInit /\ PublisherIdle

RestInit ==
    CallersInit /\ analysis = NoAnalysis /\ LifecycleInit /\ LateInit

InitPortfolio == PortfolioInit(DefaultCapital) /\ ExecutorInit /\ TrackerInit
    /\ RadarInit /\ telegram_enabled = TRUE /\ ListenerInit(<<>>)
    /\ RestInit /\ is_running = FALSE

NextPortfolio == PfOpen \/ PfClose

SpecPortfolio == InitPortfolio /\ [][NextPortfolio]_vars

InitExecutor ==
    /\ \E capital \in {DefaultCapital, SmallCapital} : PortfolioInit(capital)
    /\ ExecutorInit
    /\ TrackerInit
    /\ RadarInit /\ telegram_enabled = TRUE
    /\ ListenerInit(<<>>)
    /\ RestInit /\ is_running = FALSE

NextExecutor == ExecuteTrade \/ AdvanceDate

SpecExecutor == InitExecutor /\ [][NextExecutor]_vars

InitTracker == PortfolioInit(DefaultCapital) /\ ExecutorInit /\ TrackerInit
    /\ RadarInit /\ telegram_enabled = TRUE /\ ListenerInit(<<>>)
    /\ RestInit /\ is_running = FALSE

NextTracker == TrackOrder \/ TrackerTick

SpecTracker == InitTracker /\ [][NextTracker]_vars

InitRadar == PortfolioInit(DefaultCapital) /\ ExecutorInit /\ TrackerInit
    /\ RadarInit /\ telegram_enabled \in BOOLEAN /\ ListenerInit(<<>>)
    /\ RestInit /\ is_running = FALSE

NextRadar == Scan \/ ClearCache \/ RadarTick \/ UpdateTargets

SpecRadar == InitRadar /\ [][NextRadar]_vars

InitListener == PortfolioInit(DefaultCapital) /\ ExecutorInit /\ TrackerInit
    /\ RadarInit /\ telegram_enabled = TRUE /\ ListenerInit(<<"breaking">>)
    /\ RestInit /\ is_running = TRUE

NextListener == MonitorUpdate \/ MonitorTwitter \/ MonitorNews \/ PutKeywords

SpecListener == InitListener /\ [][NextListener]_vars

InitCallers == InitRadar

NextCallers == CallerEnter \/ CallerQuery \/ CallerStoreData \/ CallerReturn

SpecCallers == InitCallers /\ [][NextCallers]_vars

\* the service as constructed; start() and stop() come from the control
\* endpoints and from the startup of the application
InitLifecycle == InitTracker

NextLifecycle ==
    Start \/ Stop \/ LoopTop \/ LoopUpdate \/ LoopTwitter \/ LoopNews

SpecLifecycle == InitLifecycle /\ [][NextLifecycle]_vars

\* a thread is about to run the target update of its cycle
UpdateDue == \E t \in LoopThreads : loops[t] = "update"

\* the threads are scheduled: a step of the loop that can be taken is taken
\* in the end.  LoopUpdate can be taken exactly when UpdateDue holds, so its
\* condition is WF_vars(LoopUpdate) written out.
SpecLifecycleFair ==
    /\ SpecLifecycle
    /\ WF_vars(LoopTop) /\ WF_vars(LoopTwitter) /\ WF_vars(LoopNews)
    /\ ([]<>~UpdateDue \/ []<><<LoopUpdate>>_vars)

\* scorer calls on one wallet, interleaved at their awaits
InitGradeCache == InitTracker

NextGradeCache ==
    \/ WgUpdateCommit \/ WgUpdateCache \/ WgGetReadCache \/ WgGetQuery
    \/ WgGetRecache \/ WgExpire

SpecGradeCache == InitGradeCache /\ [][NextGradeCache]_vars

\* the urgency tables of the executor and of the radar side by side
InitUrgency == InitTracker

NextUrgency == UrgencyProbe

SpecUrgency == InitUrgency /\ [][NextUrgency]_vars

\* the executor fed with signals on one new market after another
InitOpenMany == InitTracker

NextOpenMany == ExecuteOnNewMarket

SpecOpenMany == InitOpenMany /\ [][NextOpenMany]_vars

\* calculate_score on any history
InitScorer == InitTracker

NextScorer == CalculateScore

SpecScorer == InitScorer /\ [][NextScorer]_vars

\* the publisher and its readers on one event loop
InitPublisher ==
    /\ PortfolioInit(DefaultCapital) /\ ExecutorInit /\ TrackerInit
    /\ RadarInit /\ telegram_enabled = TRUE /\ ListenerInit(<<>>)
    /\ CallersInit /\ analysis = NoAnalysis /\ LifecycleInit
    /\ EarlyLateInit /\ PublisherInit /\ is_running = FALSE

NextPublisher ==
    EmitConnect \/ EmitPublish \/ EmitPush \/ EmitTrim \/ LogToDb \/ GetRecent

SpecPublisher == InitPublisher /\ [][NextPublisher]_vars

\* execute_trade called by several threads of one process
InitRace == InitExecutor

NextRace ==
    \/ RaceWarmUp
    \/ RaceGate \/ RaceCheck \/ RaceLoad \/ RaceStore \/ RaceCount \/ RaceToday

SpecRace == InitRace /\ [][NextRace]_vars

\* one thread of _monitor_loop and the exceptions of its cycles
InitFaults == InitTracker

NextFaults == MonStop \/ MonTop \/ MonUpdate \/ MonTwitter \/ MonNews

SpecFaults == InitFaults /\ [][NextFaults]_vars

\* the thread of the loop is scheduled
SpecFaultsFair ==
    /\ SpecFaults
    /\ WF_vars(MonTop) /\ WF_vars(MonUpdate)
    /\ WF_vars(MonTwitter) /\ WF_vars(MonNews)

\* calculate_position_size on a portfolio constructed with any capital
InitSizing ==
    /\ \E capital \in SizingBalances : PortfolioInit(capital)
    /\ ExecutorInit /\ TrackerInit
    /\ RadarInit /\ telegram_enabled = TRUE /\ ListenerInit(<<>>)
    /\ RestInit /\ is_running = FALSE

NextSizing == SizePosition

SpecSizing == InitSizing /\ [][NextSizing]_vars

InitAnalyze ==
    /\ PortfolioInit(DefaultCapital) /\ ExecutorInit /\ TrackerInit
    /\ RadarInit /\ telegram_enabled = TRUE
    /\ \E keywords \in AnalysisKeywords : ListenerInit(keywords)
    /\ RestInit /\ is_running = FALSE

NextAnalyze == Analyze

SpecAnalyze == InitAnalyze /\ [][NextAnalyze]_vars

-----------------------------------------------------------------------------
(* C1 *)

OpenMarkets == {m \in PositionIds : positions[m].status = "OPEN"}
ClosedMarkets == {m \in PositionIds : positions[m].status = "CLOSED"}

SumOpenSizes == SumOver(OpenMarkets, [m \in PositionIds |-> positions[m].size])
SumClosedNet ==
    SumOver(ClosedMarkets,
            [m \in PositionIds |-> positions[m].payout - positions[m].size])

\* C1 as stated: available_balance + sum of OPEN sizes + sum of (payout - size)
\* over CLOSED positions = initial_capital + total_profit
C1_ConservationAsStated ==
    available_balance + SumOpenSizes + SumClosedNet = initial_capital + total_profit

\* C1 (amended): available_balance + sum of OPEN sizes = initial_capital +
\* total_profit - (sizes of OPEN positions overwritten by a later open_position
\* on the same market) + (the size of a position for every repeated
\* close_position on it); the closed positions' payout - size is what
\* total_profit already holds and is not added again.
C1_Conservation ==
    available_balance + SumOpenSizes =
        initial_capital + total_profit - overwritten_open + reclosed

\* one position closed with a profit, another still open, nothing overwritten
C1_Witness ==
    /\ \E m \in MarketIds : positions[m].status = "CLOSED" /\ positions[m].profit > 0
    /\ \E m \in MarketIds : positions[m].status = "OPEN"
    /\ overwritten_open = 0
    /\ reclosed = 0

-----------------------------------------------------------------------------
(* C4, C5: the executor's gates and its daily counter *)

\* a step of execute_trade (AdvanceDate is the only other step of SpecExecutor)
ExecStep == exec_last'.called /\ utc_date' = utc_date

\* one of the rejection conditions of the gating rule holds for the call,
\* read in the state before the call
GateHolds(signal, market) ==
    LET sq == calculate_signal_quality(signal)
        conf == calculate_confidence(sq, calculate_market_quality(market))
    IN  \/ market.volume < 5000
        \/ sq < 40
        \/ (market.days_remaining # None /\ market.days_remaining <= 0)
        \/ (IF utc_date > last_reset_date THEN 0 ELSE trades_today) >= 20
        \/ conf < 50
        \/ calculate_position_size(conf) > available_balance

\* C4 as stated: execute_trade opens a position only if none of volume < 5000,
\* signal_quality < 0.40, days_remaining <= 0, trades_today >= 20,
\* confidence < 0.50, position size > available balance holds, and it returns
\* None if any of them holds
C4_GatingAsStated ==
    [][ExecStep =>
        LET signal == exec_last'.signal
            market == exec_last'.market
        IN  /\ exec_last'.result = "trade" => ~GateHolds(signal, market)
            /\ exec_last'.result = "trade" => total_trades' = total_trades + 1
            /\ GateHolds(signal, market) => exec_last'.result = "None"]_vars

\* C5: at most 20 trades are opened within one UTC date, trades_today is the
\* number of trades opened since the last reset, and the first call on a later
\* UTC date resets trades_today to 0 before the gates are evaluated
C5_DailyCap ==
    /\ [](opened_on_date <= 20)
    /\ [](trades_today = opened_since_reset)
    /\ [][(ExecStep /\ utc_date > last_reset_date) =>
            /\ last_reset_date' = utc_date
            /\ exec_last'.reason # "Daily limit reached"
            /\ trades_today' = IF exec_last'.result = "trade" THEN 1 ELSE 0]_vars

\* the counter was reset on a later date and the cap was then reached again
C5_Witness ==
    /\ utc_date = 1
    /\ last_reset_date = 1
    /\ opened_on_date = 20
    /\ trades_today = 20
    /\ exec_last.reason = "Daily limit reached"

-----------------------------------------------------------------------------
(* C3: the smart-money trigger *)

\* the wallets of grade A or B that entered `side` within the last 30 s among
\* the entries es of a market read at time now, and what they put in together
WindowWallets(es, now, side) ==
    {w \in Wallets : \E i \in 1..Len(es) :
        /\ es[i].wallet = w
        /\ es[i].side = side
        /\ es[i].grade \in {"A", "B"}
        /\ now - es[i].timestamp <= 30}
WindowSize(es, now, side) ==
    LET In(i) == /\ es[i].side = side
                 /\ es[i].grade \in {"A", "B"}
                 /\ now - es[i].timestamp <= 30
    IN  SumOver({i \in 1..Len(es) : In(i)}, [i \in 1..Len(es) |-> es[i].size])

\* C3: a SMART_MONEY signal is emitted for (market, side) only if the entries
\* of the market within the last 30 s hold at least 3 distinct grade-A/B
\* wallets on that side with a cumulative size >= 500
C3_SmartMoneyTrigger ==
    [][\A k \in (Len(published) + 1)..Len(published') :
         LET sig == published'[k]
             es == market_entries'[sig.market_id]
         IN  /\ sig.signal_type = "SMART_MONEY"
             /\ Cardinality(WindowWallets(es, tracker_now', sig.side)) >= 3
             /\ WindowSize(es, tracker_now', sig.side) >= 500]_vars

\* a signal for m1/YES is out: three wallets are in the window, next to an
\* entry that has left it
C3_Witness ==
    /\ \E k \in 1..Len(published) :
           published[k].market_id = "m1" /\ published[k].side = "YES"
    /\ Cardinality(WindowWallets(market_entries["m1"], tracker_now, "YES")) >= 3
    /\ \E i \in 1..Len(market_entries["m1"]) :
           tracker_now - market_entries["m1"][i].timestamp > 30

-----------------------------------------------------------------------------
(* C6 - C10: the lists get_political_events returns, and its cache *)

\* the last call of get_political_events returned a list
Returned == scan_last.called /\ ~scan_last.raised

\* C6: every market of a list returned by get_political_events, freshly built
\* or served from the cache, has snipe_score >= 0.20, volume >= 500,
\* trigger_clarity >= 0.20 and days_remaining <= 120 or null
C6_ResultsSnipableAsStated ==
    Returned =>
        \A i \in 1..Len(scan_last.result) :
            LET m == scan_last.result[i]
            IN  /\ m.snipe_score # NaN /\ m.snipe_score >= 20
                /\ m.volume # NaN /\ m.volume >= 500
                /\ m.score_breakdown.trigger_clarity >= 20
                /\ (m.days_remaining = None \/ m.days_remaining <= 120)

\* C7: no market whose end_date lies in the past (urgency label 'expired') is
\* in a list returned by get_political_events
C7_NoExpiredAsStated ==
    Returned =>
        \A i \in 1..Len(scan_last.result) :
            scan_last.result[i].urgency # "expired"

\* the list is in descending order of snipe_score (where it is a number)
SortedDesc(events) ==
    \A i, j \in 1..Len(events) :
        (i < j /\ events[i].snipe_score # NaN /\ events[j].snipe_score # NaN)
            => events[i].snipe_score >= events[j].snipe_score

\* C8: the list get_political_events returns is sorted by snipe_score in
\* descending order, freshly built or served from the cache after the
\* Listener's target refresh has used it
C8_ResultSortedAsStated == Returned => SortedDesc(scan_last.result)

\* this step is a call of get_political_events
ScanStep == scans' = scans + 1

\* C9: get_political_events(use_cache=True) returns the cached list without
\* querying the exchange if and only if a refresh completed less than 300 s
\* ago and clear_cache has not been called since;
\* get_political_events(use_cache=False) always queries the exchange and
\* replaces the cache
C9_CacheTTLAsStated ==
    [][ScanStep =>
        /\ scan_last'.use_cache =>
             ((~scan_last'.queried /\ scan_last'.result = cache_data)
              <=> (last_refresh # None /\ radar_now - last_refresh < 300))
        /\ ~scan_last'.use_cache =>
             /\ scan_last'.queried
             /\ cache_timestamp' = radar_now
             /\ cache_data' = scan_last'.result]_vars

\* C10: a refresh in which every exchange query fails leaves the cached list
\* (here: one that holds markets) and its timestamp as the last successful
\* refresh left them
C10_FailedRefreshAsStated ==
    [][(ScanStep /\ scan_last'.all_failed /\ cache_data # <<>>) =>
          /\ cache_data' = cache_data
          /\ cache_timestamp' = cache_timestamp]_vars

\* C11: a call of get_political_events never raises to its caller: whatever
\* the exchange answers (failure, a JSON object in place of the array, events
\* with a missing, null or non-numeric volume or liquidity) it returns a list
C11_ScanNeverRaisesAsStated == scan_last.called => ~scan_last.raised

\* C13: over any sequence of scans and target refreshes, the critical-market
\* alert of a market id is dispatched at most once
C13_CriticalAlertOnceAsStated ==
    \A i, j \in 1..Len(alerts_sent) :
        alerts_sent[i] = alerts_sent[j] => i = j

-----------------------------------------------------------------------------
(* C12: concurrent calls of get_political_events *)

\* C12: when two callers are in get_political_events while the cache is
\* invalid, the queries are issued once, both callers return the same list,
\* and no caller gets a list that was not built completely
C12_CoalescedAsStated ==
    (\A t \in Callers : callers[t].pc = "returned") =>
        /\ query_sets <= 1
        /\ \A t, u \in Callers : callers[t].result = callers[u].result
        /\ \A t \in Callers : callers[t].result \in built

-----------------------------------------------------------------------------
(* C14 - C17: what _analyze_content matches and what a match does *)

\* the content holds a global keyword and the name of a person of the market
GlobalHit(text, target) ==
    /\ \E k \in 1..Len(global_keywords) : global_keywords[k] \in text
    /\ \E person \in target.persons : PersonLower(person) \in text

\* one of the three match rules holds for the content and the market
MatchRule(text, target) ==
    \/ target.is_favorite /\ target.quoted \cap text # {}
    \/ ~target.is_favorite /\ target.quoted # {} /\ target.quoted \subseteq text
    \/ GlobalHit(text, target)

\* C14: _analyze_content triggers a snipe only if a match rule holds
\* (favorite and one quoted keyword in the content, not favorite and all of
\* them, or a global keyword with a person of the market); so a non-favorite
\* with one of several keywords, and a market without quoted keywords, do not
\* trigger without a global hit; and one analysis triggers at most once
C14_MatchRules ==
    analysis.called =>
        LET text == analysis.text
            target == analysis.target
        IN  /\ analysis.triggered > 0 => MatchRule(text, target)
            /\ (/\ ~target.is_favorite
                 /\ Cardinality(target.quoted) > 1
                 /\ Cardinality(target.quoted \cap text) = 1
                 /\ ~GlobalHit(text, target)) => analysis.triggered = 0
            /\ (target.quoted = {} /\ ~GlobalHit(text, target))
                   => analysis.triggered = 0
            /\ analysis.triggered <= 1
            /\ \A row \in BagToSet(trades) : CopiesIn(row, trades) = 1

\* the same content, one of two keywords and no global hit, has triggered the
\* favorite market
C14_Witness ==
    /\ analysis.called
    /\ analysis.triggered = 1
    /\ analysis.target.is_favorite
    /\ analysis.target.quoted = {"maga", "covfefe"}
    /\ analysis.text = {"maga"}
    /\ BagToSet(trades) # {}

\* C15: content that holds a global keyword and a person name of the market
\* triggers a snipe, also for a market whose title quotes nothing
C15_GlobalFallbackAsStated ==
    (analysis.called /\ GlobalHit(analysis.text, analysis.target))
        => analysis.triggered > 0

\* magnitude of the signal of a match: min(1.0, snipe_score x priority_boost)
Magnitude(target) ==
    LET product == (target.snipe_score * target.priority_boost) \div 100
    IN  IF product > 100 THEN 100 ELSE product

\* C16: every match puts a LISTENER_MATCH signal for the market on the
\* Signal Publisher, with magnitude min(1.0, snipe_score x priority_boost)
C16_ListenerSignalAsStated ==
    (analysis.called /\ analysis.triggered > 0) =>
        \E k \in 1..Len(published) :
            /\ published[k].signal_type = "LISTENER_MATCH"
            /\ published[k].market_id = analysis.target.id
            /\ published[k].magnitude = Magnitude(analysis.target)

\* C17: every match opens its paper trade through the Trade Executor, with
\* side NO when the content holds a negation token and YES otherwise
C17_TradeViaExecutorAsStated ==
    (analysis.called /\ analysis.triggered > 0) =>
        /\ exec_last.called
        /\ \A row \in BagToSet(trades) :
               row.outcome = IF "not" \in analysis.text THEN "NO" ELSE "YES"

-----------------------------------------------------------------------------
(* C18 - C20: the monitor loop, its reloads, start() and stop() *)

\* C18: in every cycle that begins with cycle_count mod 10 = 0 the markets
\* are fetched from the Radar and the global keywords are reloaded from the
\* listener_keywords setting
C18_ReloadAsStated ==
    [][(cycle_count' = cycle_count + 1 /\ cycle_count % 10 = 0) =>
          /\ scans' = scans + 1
          /\ global_keywords' = listener_keywords]_vars

\* the threads that are in _monitor_loop
ActiveLoops == {t \in LoopThreads : loops[t] \notin {"none", "exited"}}

\* C19: at most one monitor loop is active at any time, whatever the
\* interleaving of start(), stop() and the steps of the loop
C19_SingleLoopAsStated == Cardinality(ActiveLoops) <= 1

\* C20: stop() leaves the cycle in flight alone, which runs to its end; while
\* the flag stays cleared no thread begins a cycle, and every thread leaves
\* the loop unless start() is called again
C20_StopEffective ==
    /\ [][(is_running /\ ~is_running') => loops' = loops]_vars
    /\ [][~is_running =>
            \A t \in LoopThreads :
                loops[t] = "top" => loops'[t] \in {"top", "exited"}]_vars
    /\ ~is_running ~> (is_running \/ ActiveLoops = {})

\* stop() came during a cycle, and the thread has left the loop since
C20_Witness ==
    /\ ~is_running
    /\ stopped_in_flight
    /\ cycle_count > 0
    /\ ActiveLoops = {}
    /\ \E t \in LoopThreads : loops[t] = "exited"

-----------------------------------------------------------------------------
(* C2: the Listener's deduplication *)

\* C2: a post or a news entry that is fetched in more than one cycle is
\* analyzed only the first time, so that it triggers at most one snipe per
\* market
C2_DedupAsStated ==
    /\ reanalyzed = {}
    /\ \A row \in BagToSet(trades) : CopiesIn(row, trades) = 1

-----------------------------------------------------------------------------
(* C22, C23: the statuses of a position and the rejected portfolio calls *)

\* C22 as stated: position status only moves forward: no open_position or
\* close_position call takes a market's position from CLOSED back to OPEN, and
\* close_position on a position that is already CLOSED changes no field of the
\* portfolio (no second payout, no counter change)
C22_StatusForwardAsStated ==
    [][/\ \A m \in MarketIds :
            positions[m].status = "CLOSED" => positions'[m].status = "CLOSED"
       /\ \A m \in MarketIds, o \in {"WIN", "LOSS"}, p \in PfPayouts :
            (positions[m].status = "CLOSED" /\ ClosePositionCall(m, o, p))
                => UNCHANGED pfVars]_vars

\* C23: close_position for a market without a position and open_position with
\* a size greater than available_balance leave every field of the portfolio
\* unchanged, and available_balance is never negative
C23_RejectedCalls ==
    /\ [][/\ \A m \in MarketIds, o \in {"WIN", "LOSS"}, p \in PfPayouts :
               (positions[m].status = "NONE" /\ ClosePositionCall(m, o, p))
                   => UNCHANGED pfVars
          /\ \A m \in MarketIds, sd \in {"YES", "NO"}, z \in PfSizes,
                c \in PfConfidences :
               (z > available_balance /\ OpenPositionCall(m, sd, z, c))
                   => UNCHANGED pfVars]_vars
    /\ [](available_balance >= 0)

\* one position was opened and nothing closed, so every other call was
\* rejected: an open_position above the balance or a close_position for a
\* market without a position
C23_Witness ==
    /\ pf_calls = MaxPfCalls
    /\ total_trades = 1
    /\ winning_trades + losing_trades = 0
    /\ available_balance >= 0

-----------------------------------------------------------------------------
(* C24: the position size *)

\* clamp(x, lo, hi)
Clamp(x, lo, hi) == IF x < lo THEN lo ELSE IF x > hi THEN hi ELSE x

\* balance * 0.02 * max(1, confidence / 0.5), times 2500 (balance in cents,
\* confidence in hundredths)
ScaledBase(balance, confidence) == balance * Max(50, confidence)

\* C24 as stated: for every confidence in [0,1] and every balance the size is
\* clamp(balance*0.02*max(1, confidence/0.5), 10, balance*0.05), never below
\* $10 and never above 5% of the available balance (to the cent)
C24_SizingAsStated ==
    sizing.called =>
        /\ sizing.size = RoundDiv(Clamp(ScaledBase(available_balance,
                                                   sizing.confidence),
                                        1000 * 2500, available_balance * 125),
                                  2500)
        /\ sizing.size >= 1000
        /\ sizing.size <= RoundDiv(available_balance * 125, 2500)

\* C24: the size is max(10, min(balance*0.02*max(1, confidence/0.5),
\* balance*0.05)) to the cent: never below $10; never above 5% of the balance
\* when the balance is at least $200, and $10 whatever the confidence when
\* the balance is below $200
C24_Sizing ==
    sizing.called =>
        /\ sizing.size = RoundDiv(Max(1000 * 2500,
                                      Min(ScaledBase(available_balance,
                                                     sizing.confidence),
                                          available_balance * 125)), 2500)
        /\ sizing.size >= 1000
        /\ available_balance >= 20000
               => sizing.size <= RoundDiv(available_balance * 125, 2500)
        /\ available_balance < 20000 => sizing.size = 1000

\* a size computed with a high confidence on a balance between $0 and $200
C24_Witness ==
    /\ sizing.called
    /\ sizing.confidence > 50
    /\ available_balance > 0
    /\ available_balance < 20000
    /\ sizing.size = 1000

-----------------------------------------------------------------------------
(* C25: what a skipped execute_trade leaves alone *)

\* C25 as stated: when execute_trade skips a pair because a gate fails, it
\* returns None and leaves the portfolio and trades_today unchanged
C25_SkipFrameAsStated ==
    [][(ExecStep /\ exec_last'.result = "None") =>
            /\ exec_last'.reason # "ok"
            /\ UNCHANGED pfVars
            /\ trades_today' = trades_today]_vars

\* C25: a call of execute_trade that opens no position leaves the portfolio
\* unchanged and does not count in trades_today, which stays as it is or, on
\* the first call of a later UTC date, is reset to 0
C25_SkipFrame ==
    [][(ExecStep /\ exec_last'.result # "trade") =>
            /\ UNCHANGED pfVars
            /\ trades_today' = (IF utc_date > last_reset_date THEN 0
                                ELSE trades_today)]_vars

\* trades were opened on the first date, and the first call of the next date
\* was skipped and reset the counter
C25_Witness ==
    /\ exec_last.called
    /\ exec_last.result = "None"
    /\ total_trades > 0
    /\ utc_date = 1
    /\ last_reset_date = 1
    /\ opened_on_date = 0
    /\ trades_today = 0

-----------------------------------------------------------------------------
(* C21: exceptions inside a cycle of the monitor loop *)

\* a step of the cycle that raised an exception
FaultStep == mon'.raised = mon.raised + 1

\* the statement the thread goes on with when the step raised nothing
NextStage(pc) ==
    IF pc = "update" THEN "twitter" ELSE IF pc = "twitter" THEN "news" ELSE "top"

\* C21 as stated: a fault inside a listener cycle (target refresh, post fetch,
\* feed parse, trigger handling) never terminates the monitor loop: the
\* exception is logged, the loop sleeps its recovery interval and then starts
\* the next cycle
C21_FaultRecoveryAsStated ==
    [][FaultStep =>
          /\ mon'.logged = mon.logged + 1
          /\ mon'.pc = "top"
          /\ mon'.slept = RecoverySeconds]_vars

\* C21: a fault inside a listener cycle never terminates the monitor loop and
\* is logged.  A fault that one of _update_targets, _check_twitter,
\* _check_news, _trigger_snipe catches itself lets the cycle go on with its
\* next step, without the recovery sleep; any other fault is caught by the
\* loop, which sleeps its recovery interval and goes back to its test.  The
\* thread ends only at that test with is_running false, and after a fault a
\* next cycle begins unless is_running is cleared.
C21_FaultContained ==
    /\ [][FaultStep =>
            /\ mon'.logged = mon.logged + 1
            /\ mon'.pc # "exited"
            /\ mon'.handler = "_monitor_loop"
                   => (mon'.pc = "top" /\ mon'.slept = RecoverySeconds)
            /\ mon'.handler # "_monitor_loop"
                   => (mon'.pc = NextStage(mon.pc)
                       /\ mon'.slept # RecoverySeconds)]_vars
    /\ [][(mon.pc # "exited" /\ mon'.pc = "exited")
              => (mon.pc = "top" /\ ~mon.is_running)]_vars
    /\ (mon.fault # "none") ~> (mon.pc = "update" \/ ~mon.is_running)

\* the loop caught an exception, slept its recovery interval and began the
\* next cycle, after a fault that was caught inside a step
C21_Witness ==
    /\ mon.is_running
    /\ mon.pc = "update"
    /\ mon.raised = 2
    /\ mon.logged = 2
    /\ mon.handler = "_monitor_loop"
    /\ mon.slept = RecoverySeconds
    /\ mon.cycle_count = 1

-----------------------------------------------------------------------------
(* C26: concurrent calls of execute_trade *)

\* every thread that called execute_trade has returned
RaceOver == \A t \in RaceThreads : race[t].pc = "done"

\* C26 as stated: two concurrent execute_trade calls have the outcome of some
\* serial order: available_balance is never negative, the capital of every
\* opened position is accounted for (balance plus open sizes plus the sizes
\* replaced on the same market is the initial capital), every opened trade is
\* counted, and no more than 20 trades are opened in one UTC date
C26_SerializedAsStated ==
    /\ available_balance >= 0
    /\ opened_on_date <= max_trades_per_day
    /\ RaceOver =>
          /\ available_balance + SumOpenSizes + overwritten_open
                 = initial_capital
          /\ trades_today = opened_since_reset
          /\ total_trades = opened_since_reset

-----------------------------------------------------------------------------
(* C27, C28, C29: the publisher's recency lists and the durable store *)

\* no emit_signal and no _log_to_db task is in progress
PublisherQuiet == emit.pc = "idle" /\ db_tasks = {}

\* C27 as stated: every signal that emit broadcasts to the snipe_signals
\* topic is also appended to that market's recency list and persisted to the
\* durable store, including when a step after the broadcast fails
C27_BroadcastKeptAsStated ==
    PublisherQuiet => (channel \subseteq appended /\ channel \subseteq persisted)

\* C28 as stated: in every reachable state, including between the steps of
\* an emit and after a failed step, each list signals:{market_id} holds at
\* most 100 signals
C28_ListBoundAsStated ==
    \A m \in MarketIds : Len(redis_lists[m]) <= ListKeep

\* C29 as stated: recent(market_id, limit), when Redis answers, returns at
\* most limit signals for every limit >= 0: exactly the min(limit, number
\* stored) most recently emitted signals of that market, newest first
C29_RecentAsStated ==
    (recent_last.called /\ ~recent_last.raised) =>
        LET list == redis_lists[recent_last.market_id]
        IN  /\ Len(recent_last.result) <= recent_last.limit
            /\ recent_last.result
                   = SubSeq(list, 1, Min(recent_last.limit, Len(list)))

-----------------------------------------------------------------------------
(* C30: the grade of a wallet *)

\* C30 as stated: calculate_score is a total, pure function of the
\* historical-trade list: for every list it returns, without raising and
\* without touching any state, a grade in {A,B,C,D} that is D for the empty
\* list and otherwise A if final score >= 0.80, B if >= 0.60, C if >= 0.40,
\* else D
C30_GradeTotalAsStated ==
    score_last.called =>
        /\ score_last.raised = "-"
        /\ score_last.grade \in {"A", "B", "C", "D"}
        /\ score_last.historical_trades = <<>> => score_last.grade = "D"
        /\ score_last.historical_trades # <<>> =>
               score_last.grade =
                   (IF 100 * score_last.num >= 80 * score_last.den THEN "A"
                    ELSE IF 100 * score_last.num >= 60 * score_last.den THEN "B"
                    ELSE IF 100 * score_last.num >= 40 * score_last.den THEN "C"
                    ELSE "D")

-----------------------------------------------------------------------------
(* C31: the grade cache *)

\* no scorer call is between its first and its last step
GradeCallsOver == \A c \in GradeCalls : wg.calls[c].pc \in {"idle", "done"}

\* C31 as stated: get_wallet_grade returns the cached grade if present, else
\* the stored grade, else UNKNOWN; and for every interleaving of concurrent
\* update_wallet_score and get_wallet_grade calls on one wallet, once all
\* calls have completed a cached grade equals the grade in the store
C31_CacheCoherentAsStated ==
    /\ \A c \in GradeCalls :
           wg.calls[c].kind = "get" /\ wg.calls[c].pc = "done" =>
               wg.calls[c].result =
                   (IF wg.calls[c].saw_cache # NoGrade THEN wg.calls[c].saw_cache
                    ELSE IF wg.calls[c].saw_store # NoGrade
                    THEN wg.calls[c].saw_store ELSE "UNKNOWN")
    /\ GradeCallsOver /\ wg.cache # NoGrade => wg.cache = wg.store

-----------------------------------------------------------------------------
(* C34: one urgency table *)

\* C34 as stated: for every value of days_remaining, the urgency bucket used
\* by calculate_market_quality equals the urgency sub-score the Radar uses in
\* the snipe score (0 when expired, 1.0 for <= 1, 0.9 for <= 7, 0.7 for <= 30,
\* 0.4 for <= 90, 0.1 beyond)
C34_UrgencyMirrorsAsStated ==
    urgency_probe.called =>
        /\ urgency_probe.market = urgency_probe.snipe
        /\ urgency_probe.snipe =
               (IF urgency_probe.days_remaining < 0 THEN 0
                ELSE IF urgency_probe.days_remaining <= 1 THEN 100
                ELSE IF urgency_probe.days_remaining <= 7 THEN 90
                ELSE IF urgency_probe.days_remaining <= 30 THEN 70
                ELSE IF urgency_probe.days_remaining <= 90 THEN 40
                ELSE 10)

-----------------------------------------------------------------------------
(* C32: the size of the dedup structures *)

\* C32 as stated: neither the seen-post mapping nor the seen-news-link set
\* ever holds more than 1000 entries, and on overflow each is pruned to its 500
\* most recently seen entries (links are numbered in the order in which the
\* feeds publish them, so the most recently seen links are the largest).  The
\* removal of entries older than 24 hours, which the claim adds, would only
\* remove more.
C32_SeenBoundedAsStated ==
    /\ [](Len(last_tweet_ids) <= SeenMax /\ Cardinality(last_news_links) <= SeenMax)
    /\ [][/\ Len(last_tweet_ids') < Len(last_tweet_ids) =>
                last_tweet_ids' = SubSeq(last_tweet_ids \o last_tweet_ids',
                                         Len(last_tweet_ids) - SeenKeep + 1,
                                         Len(last_tweet_ids))
          /\ Cardinality(last_news_links') < Cardinality(last_news_links) =>
                /\ Cardinality(last_news_links') = SeenKeep
                /\ \A old \in last_news_links \ last_news_links' :
                       \A kept \in last_news_links' : old < kept]_vars

-----------------------------------------------------------------------------
(* C33: the magnitude of a SMART_MONEY signal *)

\* the sum, in hundredths, of the grade scores (A = 1.0, B = 0.75) of the
\* distinct wallets on a side of the window
WalletGradeSum(es, now, side) ==
    LET idx == SideIdx(es, now, side)
        grade_of(w) == es[CHOOSE i \in idx : es[i].wallet = w].grade
    IN  SumOver(SideWallets(es, now, side),
                [w \in Wallets |-> IF grade_of(w) = "A" THEN 100 ELSE 75])

\* C33 as stated: every emitted SMART_MONEY signal has magnitude
\* min(1, (W/10)*0.7 + (S/5000)*0.3) * G, where W is the number of distinct
\* wallets on the firing side, S their cumulative size and G the mean grade
\* score of those wallets; the magnitude lies in [0,1]
C33_MagnitudeAsStated ==
    [][\A k \in (Len(published) + 1)..Len(published') :
         LET sig == published'[k]
             es == market_entries'[sig.market_id]
             W == Cardinality(SideWallets(es, tracker_now', sig.side))
             S == SideSize(es, tracker_now', sig.side)
             \* min(1, W/10*0.7 + S/5000*0.3), in 1/100000
             capped == Min(100000, 7000 * W + 6 * S)
         IN  /\ sig.mag_num * W =
                    capped * WalletGradeSum(es, tracker_now', sig.side)
                    * (sig.mag_den \div 10000000)
             /\ 0 <= sig.mag_num /\ sig.mag_num <= sig.mag_den]_vars

-----------------------------------------------------------------------------
(* C40: one signal for a coordinated entry *)

\* C40 as stated: within any 30 s window at most one SMART_MONEY signal is
\* emitted per (market, side): a further order on the same side, or an order
\* on the opposite side, does not emit the signal of a side again
C40_FiresOnceAsStated ==
    \A j, k \in 1..Len(published) :
        (/\ j < k
         /\ published[j].market_id = published[k].market_id
         /\ published[j].side = published[k].side)
            => published[k].timestamp - published[j].timestamp > TIME_WINDOW

-----------------------------------------------------------------------------
(* C35: days_remaining of an enriched market *)

\* C35 as stated: for every event whose end_date is a parseable ISO-8601
\* timestamp, including one with a trailing Z, the enriched market's
\* days_remaining is the non-null integer max(0, floor(end_date - now in
\* days)); it is null only when end_date is missing or unparseable
C35_DaysRemainingAsStated ==
    (Returned /\ scan_last.queried /\ last_refresh # None) =>
        \A i \in 1..Len(scan_last.result) :
            LET m == scan_last.result[i]
            IN  /\ m.end_kind \in {"naive", "aware"} =>
                       /\ m.days_remaining # None
                       /\ m.days_remaining =
                              Max(0, DaysUntil(m.end_t, last_refresh))
                /\ m.days_remaining = None =>
                       m.end_kind \in {"missing", "garbage"}

-----------------------------------------------------------------------------
(* C37: the urgency label and the urgency rate *)

\* C37 as stated: for every enriched market the urgency label and
\* urgency_rate agree: critical implies urgency_rate = 100, high implies 90,
\* medium implies 70, low implies 40 or 10, expired implies 0; a market with
\* days_remaining = 0 is labelled critical and has urgency_rate >= 90, the
\* threshold of the critical alert
C37_LabelMatchesRateAsStated ==
    Returned =>
        \A i \in 1..Len(scan_last.result) :
            LET m == scan_last.result[i]
            IN  /\ m.urgency = "critical" => m.urgency_rate = 100
                /\ m.urgency = "high" => m.urgency_rate = 90
                /\ m.urgency = "medium" => m.urgency_rate = 70
                /\ m.urgency = "low" => m.urgency_rate \in {40, 10}
                /\ m.urgency = "expired" => m.urgency_rate = 0
                /\ m.days_remaining = 0 =>
                       m.urgency = "critical" /\ m.urgency_rate >= 90

-----------------------------------------------------------------------------
(* C36: the range of the wallet score *)

\* C36 as stated: for every non-empty trade history, the normalized ROI
\* component (risk_adjusted_roi + 1) / 6, with risk_adjusted_roi clamped to
\* [-2, 5], lies in [0,1], and therefore the final score lies in [0,1]
C36_ScoreRangeAsStated ==
    (/\ score_last.called /\ score_last.historical_trades # <<>>
     /\ score_last.raised = "-") =>
        /\ 0 <= score_last.roi_adjusted_n + score_last.roi_adjusted_d
        /\ score_last.roi_adjusted_n + score_last.roi_adjusted_d
               <= 6 * score_last.roi_adjusted_d
        /\ 0 <= score_last.num
        /\ score_last.num <= score_last.den

-----------------------------------------------------------------------------
(* C38: the counters of the portfolio *)

\* C38 as stated: after any sequence of open_position and close_position
\* calls, total_trades = winning_trades + losing_trades + (number of positions
\* with status OPEN)
C38_CountersAsStated ==
    total_trades = winning_trades + losing_trades + Cardinality(OpenMarkets)

-----------------------------------------------------------------------------
(* C39: the number of open positions *)

\* C39 as stated: the number of simultaneously OPEN positions created through
\* execute_trade never exceeds the configured max_open_positions (10)
C39_OpenPositionsCapAsStated == Cardinality(OpenMarkets) <= max_open_positions

====
